---- MODULE Spec2Model ----
(***************************************************************************)
(* A model of the TestRail MCP gateway: the tool dispatch layer            *)
(* (src/src/server/api/*.ts), the resource clients                         *)
(* (src/src/client/api/*.ts) and the argument schemas                      *)
(* (src/src/shared/schemas/*.ts).                                          *)
(*                                                                         *)
(* A call occupies a slot.  It is either a tool call, which the protocol   *)
(* server validates against the tool's schema and hands to the handler,    *)
(* or a direct call of a CasesClient method, as the client tests make.     *)
(* The handler runs up to its single await (the HTTP request is issued),   *)
(* the upstream answers, and the handler builds its envelope.              *)
(*                                                                         *)
(* JavaScript values are records [t, n, s, a]: t is the typeof-like tag,   *)
(* n the number (or 0/1 for a boolean), s the string, a the array.         *)
(* Objects are functions from their own keys to values; key order is not   *)
(* modelled.  Numbers are integers; strings are TLA+ strings.              *)
(***************************************************************************)
EXTENDS Integers, Sequences, FiniteSets, TLC

-----------------------------------------------------------------------------
(* Bounds of the model. *)

\* Number of call slots.
MaxCalls == 2
\* Largest number of cases in one upstream page of get_cases.
MaxPage == 2
\* How many argument fields of a call differ from the tool's base record.
MaxVaried == 2

-----------------------------------------------------------------------------
(* JavaScript values. *)

Undefined == [t |-> "undefined", n |-> 0, s |-> "", a |-> <<>>]
Null == [t |-> "null", n |-> 0, s |-> "", a |-> <<>>]
Num(i) == [t |-> "number", n |-> i, s |-> "", a |-> <<>>]
Str(x) == [t |-> "string", n |-> 0, s |-> x, a |-> <<>>]
Bool(b) == [t |-> "boolean", n |-> IF b THEN 1 ELSE 0, s |-> "", a |-> <<>>]
\* An array of numbers.
Arr(q) == [t |-> "array", n |-> 0, s |-> "", a |-> q]
\* An array whose elements are not all numbers (its content is not needed).
BadArr == [t |-> "badarray", n |-> 0, s |-> "", a |-> <<>>]

\* An array of objects (steps, per-item results), in a field of its own.
Items(q) == [t |-> "items", n |-> 0, s |-> "", a |-> <<>>, items |-> q]

\* ToBoolean: what `if (v)` and `v ? x : y` test.
Truthy(v) ==
    CASE v.t = "undefined" -> FALSE
      [] v.t = "null" -> FALSE
      [] v.t = "number" -> v.n # 0
      [] v.t = "string" -> v.s # ""
      [] v.t = "boolean" -> v.n = 1
      [] OTHER -> TRUE

\* ToString, as a template literal `${v}` applies it.
JSString(v) ==
    CASE v.t = "undefined" -> "undefined"
      [] v.t = "null" -> "null"
      [] v.t = "number" -> ToString(v.n)
      [] v.t = "string" -> v.s
      [] v.t = "boolean" -> (IF v.n = 1 THEN "true" ELSE "false")
      [] OTHER -> "[object]"

\* The empty object {}.
EmptyObj == <<>>

\* obj[key], undefined when obj has no such own key.
Get(obj, key) == IF key \in DOMAIN obj THEN obj[key] ELSE Undefined

\* The object literal { ...obj, key: v } / the assignment obj[key] = v.
Put(obj, key, v) == [k \in (DOMAIN obj) \cup {key} |-> IF k = key THEN v ELSE obj[k]]

\* JSON.parse(JSON.stringify(obj)) of a flat object: a key whose value is
\* undefined is not written.
JSONObject(obj) == [k \in {x \in DOMAIN obj : obj[x] # Undefined} |-> obj[k]]

\* `if (v) { data.key = v; }`
SetIf(data, key, v) == IF Truthy(v) THEN Put(data, key, v) ELSE data

-----------------------------------------------------------------------------
(* The argument schemas (zod) and their validation. *)

\* z.number() / z.string() / z.array(z.number()), required; .optional();
\* .min(m); .default(d).  A field without .min has hasMin FALSE; a field
\* without .default has def Undefined.
Required(type) ==
    [type |-> type, optional |-> FALSE, hasMin |-> FALSE, min |-> 0, def |-> Undefined]
Optional(type) ==
    [type |-> type, optional |-> TRUE, hasMin |-> FALSE, min |-> 0, def |-> Undefined]

getTestCaseSchema == [caseId |-> Required("number")]

LimitWithoutMin == [Optional("number") EXCEPT !.def = Num(50)]
\* limit: z.number().min(1).optional().default(50)
LimitField == [Optional("number") EXCEPT !.hasMin = TRUE, !.min = 1, !.def = Num(50)]
\* offset: z.number().optional().default(0)
OffsetField == [Optional("number") EXCEPT !.def = Num(0)]

getTestCasesSchema ==
    [projectId |-> Required("number"), suiteId |-> Required("number")]

\* The shape the getCases tool registers.
getCasesToolSchema ==
    [projectId |-> getTestCasesSchema.projectId,
     suiteId |-> getTestCasesSchema.suiteId,
     limit |-> LimitField,
     offset |-> OffsetField]

\* The optional case fields shared by the add and update schemas.
CaseFieldsSchema ==
    [typeId |-> Optional("number"),
     priorityId |-> Optional("number"),
     estimate |-> Optional("string"),
     milestoneId |-> Optional("number"),
     refs |-> Optional("string"),
     customPrerequisites |-> Optional("string"),
     customSteps |-> Optional("string"),
     customExpected |-> Optional("string")]

addTestCaseSchema ==
    [sectionId |-> Required("number"), title |-> Required("string")] @@ CaseFieldsSchema

updateTestCaseSchema ==
    [caseId |-> Required("number"), title |-> Optional("string")] @@ CaseFieldsSchema

deleteTestCaseSchema == [caseId |-> Required("number")]

updateTestCasesSchema ==
    [projectId |-> Required("number"),
     suiteId |-> Required("number"),
     caseIds |-> Required("numberArray"),
     title |-> Optional("string")] @@ CaseFieldsSchema

getPlansSchema == [projectId |-> Required("number")]

\* The schema of the addResultForCase tool, from the fields its handler reads.
addResultForCaseSchema ==
    [runId |-> Required("number"),
     caseId |-> Required("number"),
     statusId |-> Optional("number"),
     comment |-> Optional("string"),
     version |-> Optional("string"),
     elapsed |-> Optional("string"),
     defects |-> Optional("string"),
     assignedtoId |-> Optional("number")]

\* The schemas of the run and milestone read tools, from the argument each
\* handler destructures.
getRunSchema == [runId |-> Required("number")]
\* The schema of getRuns: the two arguments its handler names and the
\* filters it collects in the rest.
getRunsSchema ==
    [projectId |-> Required("number"),
     createdBy |-> Optional("numberArray"),
     suiteId |-> Optional("number"),
     isCompleted |-> Optional("boolean"),
     limit |-> Optional("number"),
     offset |-> Optional("number")]
getMilestoneSchema == [milestoneId |-> Required("number")]

deleteMilestoneSchema == [milestoneId |-> Required("number")]

\* The schemas of the two batch result tools, from the arguments each
\* handler destructures and the element fields it reads.
addResultsSchema ==
    [runId |-> Required("number"), results |-> Required("testResultArray")]
addResultsForCasesSchema ==
    [runId |-> Required("number"), results |-> Required("caseResultArray")]

\* The schemas of the run, milestone and shared step write tools, from the
\* arguments each handler destructures.
addRunSchema ==
    [projectId |-> Required("number"),
     suiteId |-> Optional("number"),
     name |-> Required("string"),
     description |-> Optional("string"),
     milestoneId |-> Optional("number"),
     assignedtoId |-> Optional("number"),
     includeAll |-> Optional("boolean"),
     caseIds |-> Optional("numberArray"),
     configIds |-> Optional("numberArray"),
     refs |-> Optional("string")]
updateRunSchema ==
    [runId |-> Required("number"),
     name |-> Optional("string"),
     description |-> Optional("string"),
     milestoneId |-> Optional("number"),
     assignedtoId |-> Optional("number"),
     includeAll |-> Optional("boolean"),
     caseIds |-> Optional("numberArray"),
     refs |-> Optional("string")]
addMilestoneSchema ==
    [projectId |-> Required("number"),
     name |-> Required("string"),
     description |-> Optional("string"),
     dueOn |-> Optional("number"),
     refs |-> Optional("string")]
updateMilestoneSchema ==
    [milestoneId |-> Required("number"),
     name |-> Optional("string"),
     description |-> Optional("string"),
     dueOn |-> Optional("number"),
     refs |-> Optional("string")]
addSharedStepSchema ==
    [projectId |-> Required("number"),
     title |-> Required("string"),
     steps |-> Required("stepArray")]
updateSharedStepSchema ==
    [sharedStepId |-> Required("number"),
     title |-> Optional("string"),
     steps |-> Optional("stepArray")]

\* The schemas of the plan write tools.
addPlanSchema ==
    [projectId |-> Required("number"),
     name |-> Required("string"),
     description |-> Optional("string"),
     milestoneId |-> Optional("number"),
     entries |-> Optional("entryArray")]
addPlanEntrySchema ==
    [planId |-> Required("number"),
     suiteId |-> Required("number"),
     name |-> Optional("string"),
     description |-> Optional("string"),
     assignedtoId |-> Optional("number"),
     includeAll |-> Optional("boolean"),
     caseIds |-> Optional("numberArray"),
     configIds |-> Optional("numberArray"),
     refs |-> Optional("string"),
     runs |-> Optional("recordArray")]
addRunToPlanEntrySchema ==
    [planId |-> Required("number"),
     entryId |-> Required("string"),
     configIds |-> Required("numberArray"),
     description |-> Optional("string"),
     assignedtoId |-> Optional("number"),
     includeAll |-> Optional("boolean"),
     caseIds |-> Optional("numberArray"),
     refs |-> Optional("string")]

getTestCaseHistorySchema == [caseId |-> Required("number")]
copyTestCasesToSectionSchema ==
    [caseIds |-> Required("numberArray"), sectionId |-> Required("number")]
moveTestCasesToSectionSchema ==
    [caseIds |-> Required("numberArray"), sectionId |-> Required("number")]

Tools ==
    {"getCase", "getCases", "addCase", "updateCase", "deleteCase", "updateCases",
     "getPlans", "addResultForCase", "getRun", "getMilestone", "deleteMilestone",
     "getCaseHistory", "copyToSection", "moveToSection", "addRun", "updateRun",
     "addMilestone", "updateMilestone", "addSharedStep", "updateSharedStep",
     "addResults", "addResultsForCases", "addPlan", "addPlanEntry",
     "addRunToPlanEntry", "getRuns"}

\* The schema each server.tool(...) call registers with its handler.
ToolSchema(tool) ==
    CASE tool = "getCase" -> getTestCaseSchema
      [] tool = "getCases" -> getCasesToolSchema
      [] tool = "addCase" -> addTestCaseSchema
      [] tool = "updateCase" -> updateTestCaseSchema
      [] tool = "deleteCase" -> deleteTestCaseSchema
      [] tool = "updateCases" -> updateTestCasesSchema
      [] tool = "getPlans" -> getPlansSchema
      [] tool = "addResultForCase" -> addResultForCaseSchema
      [] tool = "getRun" -> getRunSchema
      [] tool = "getMilestone" -> getMilestoneSchema
      [] tool = "deleteMilestone" -> deleteMilestoneSchema
      [] tool = "getCaseHistory" -> getTestCaseHistorySchema
      [] tool = "copyToSection" -> copyTestCasesToSectionSchema
      [] tool = "moveToSection" -> moveTestCasesToSectionSchema
      [] tool = "addRun" -> addRunSchema
      [] tool = "updateRun" -> updateRunSchema
      [] tool = "addMilestone" -> addMilestoneSchema
      [] tool = "updateMilestone" -> updateMilestoneSchema
      [] tool = "addSharedStep" -> addSharedStepSchema
      [] tool = "updateSharedStep" -> updateSharedStepSchema
      [] tool = "addResults" -> addResultsSchema
      [] tool = "addResultsForCases" -> addResultsForCasesSchema
      [] tool = "addPlan" -> addPlanSchema
      [] tool = "addPlanEntry" -> addPlanEntrySchema
      [] tool = "addRunToPlanEntry" -> addRunToPlanEntrySchema
      [] tool = "getRuns" -> getRunsSchema

\* The optional fields of one element of a results array, and the key that
\* identifies the element.
ResultItemFields ==
    [statusId |-> "number", comment |-> "string", version |-> "string",
     elapsed |-> "string", defects |-> "string", assignedtoId |-> "number"]
ResultIdKey(type) == IF type = "testResultArray" THEN "testId" ELSE "caseId"

\* Whether one field accepts a supplied value.
Accepts(f, v) ==
    IF v = Undefined
    THEN f.optional
    ELSE CASE f.type = "number" -> v.t = "number" /\ (f.hasMin => v.n >= f.min)
           [] f.type = "string" -> v.t = "string"
           [] f.type = "numberArray" -> v.t = "array"
           [] f.type = "boolean" -> v.t = "boolean"
           [] f.type \in {"testResultArray", "caseResultArray"} ->
                  /\ v.t = "items"
                  /\ \A i \in 1..Len(v.items) :
                         /\ Get(v.items[i], ResultIdKey(f.type)).t = "number"
                         /\ \A k \in DOMAIN v.items[i] \ {ResultIdKey(f.type)} :
                                /\ k \in DOMAIN ResultItemFields
                                /\ v.items[i][k].t \in {ResultItemFields[k], "undefined"}
           [] f.type = "entryArray" ->
                  /\ v.t = "items"
                  /\ \A i \in 1..Len(v.items) :
                         Get(v.items[i], "suite_id").t = "number"
           [] f.type = "recordArray" -> v.t = "items"
           [] f.type = "stepArray" ->
                  /\ v.t = "items"
                  /\ \A i \in 1..Len(v.items) :
                         /\ Get(v.items[i], "content").t = "string"
                         /\ \A k \in DOMAIN v.items[i] :
                                v.items[i][k].t \in {"string", "undefined"}

\* safeParse(...).success of the object schema.
Valid(schema, args) == \A k \in DOMAIN schema : Accepts(schema[k], Get(args, k))

\* The parsed arguments: declared defaults stand in for omitted fields.
Parse(schema, args) ==
    [k \in DOMAIN schema |->
        IF Get(args, k) = Undefined THEN schema[k].def ELSE args[k]]

-----------------------------------------------------------------------------
(* The resource clients: one HTTP request per method. *)

\* What this.client.get(url) / get(url, {params}) / post(url, body) sends.
HttpGet(url) ==
    [method |-> "GET", url |-> url, hasParams |-> FALSE, params |-> EmptyObj,
     body |-> EmptyObj]
HttpGetParams(url, params) ==
    [method |-> "GET", url |-> url, hasParams |-> TRUE, params |-> params,
     body |-> EmptyObj]
\* The body travels as JSON text: undefined-valued keys are not written.
HttpPost(url, body) ==
    [method |-> "POST", url |-> url, hasParams |-> FALSE, params |-> EmptyObj,
     body |-> JSONObject(body)]

\* A client method up to its await: the request it sends, the message it
\* gives handleApiError when the request fails, and whether it returns
\* response.data (void methods return nothing).
ClientCall(request, failMessage, returnsData) ==
    [request |-> request, failMessage |-> failMessage, returnsData |-> returnsData]

CasesClient_getCaseNoId(caseId) ==
    ClientCall(HttpGet("/api/v2/get_case/" \o JSString(caseId)),
               "Failed to get test case", TRUE)
CasesClient_getCase(caseId) ==
    ClientCall(HttpGet("/api/v2/get_case/" \o JSString(caseId)),
               "Failed to get test case " \o JSString(caseId), TRUE)

CasesClient_getCasesSuiteOnly(projectId, suiteId, filters) ==
    ClientCall(HttpGetParams("/api/v2/get_cases/" \o JSString(projectId),
                             [suite_id |-> suiteId]),
               "Failed to get test cases for project " \o JSString(projectId), TRUE)
CasesClient_getCases(projectId, suiteId, filters) ==
    ClientCall(HttpGetParams("/api/v2/get_cases/" \o JSString(projectId),
                             filters @@ [suite_id |-> suiteId]),
               "Failed to get test cases for project " \o JSString(projectId), TRUE)

CasesClient_addCaseTitleOnly(sectionId, data) ==
    ClientCall(HttpPost("/api/v2/add_case/" \o JSString(sectionId),
                        [k \in DOMAIN data \cap {"title"} |-> data[k]]),
               "Failed to add test case to section " \o JSString(sectionId), TRUE)
CasesClient_addCase(sectionId, data) ==
    ClientCall(HttpPost("/api/v2/add_case/" \o JSString(sectionId), data),
               "Failed to add test case to section " \o JSString(sectionId), TRUE)

CasesClient_updateCase(caseId, data) ==
    ClientCall(HttpPost("/api/v2/update_case/" \o JSString(caseId), data),
               "Failed to update test case " \o JSString(caseId), TRUE)

CasesClient_deleteCase(caseId) ==
    ClientCall(HttpPost("/api/v2/delete_case/" \o JSString(caseId), EmptyObj),
               "Failed to delete test case " \o JSString(caseId), FALSE)

\* The endpoint of update_cases / delete_cases: `suiteId ? a : b`.
BulkEndpoint(verb, projectId, suiteId) ==
    IF Truthy(suiteId)
    THEN "/api/v2/" \o verb \o "/" \o JSString(projectId)
             \o "?suite_id=" \o JSString(suiteId)
    ELSE "/api/v2/" \o verb \o "/" \o JSString(projectId)

\* The body of update_cases: { ...data, case_ids: caseIds }.
UpdateCasesBody(data, caseIds) == Put(data, "case_ids", caseIds)

CasesClient_updateCases(projectId, suiteId, data, caseIds) ==
    ClientCall(HttpPost(BulkEndpoint("update_cases", projectId, suiteId),
                        UpdateCasesBody(data, caseIds)),
               "Failed to update test cases", FALSE)

CasesClient_deleteCases(projectId, suiteId, caseIds) ==
    ClientCall(HttpPost(BulkEndpoint("delete_cases", projectId, suiteId),
                        [case_ids |-> caseIds]),
               "Failed to delete test cases", FALSE)

\* getPlans(projectId) with the filters omitted, as the tool calls it:
\* { params: undefined } sends no query.
PlansClient_getPlans(projectId) ==
    ClientCall(HttpGet("/api/v2/get_plans/" \o JSString(projectId)),
               "Failed to get test plans for project " \o JSString(projectId), TRUE)

\* `if (data.includeAll !== undefined) payload.include_all = data.includeAll`
SetIfDefined(payload, key, v) == IF v # Undefined THEN Put(payload, key, v) ELSE payload

\* addPlan: the payload starts from name and takes each optional field that
\* is truthy.
AddPlanPayload(data) ==
    SetIf(SetIf(SetIf([name |-> Get(data, "name")],
        "description", Get(data, "description")),
        "milestone_id", Get(data, "milestoneId")),
        "entries", Get(data, "entries"))

PlansClient_addPlan(projectId, data) ==
    ClientCall(HttpPost("/api/v2/add_plan/" \o JSString(projectId),
                        AddPlanPayload(data)),
               "Failed to add test plan to project " \o JSString(projectId), TRUE)

AddPlanEntryPayload(data) ==
    SetIf(SetIf(SetIf(SetIf(
    SetIfDefined(
    SetIf(SetIf(SetIf([suite_id |-> Get(data, "suiteId")],
        "name", Get(data, "name")),
        "description", Get(data, "description")),
        "assignedto_id", Get(data, "assignedtoId")),
        "include_all", Get(data, "includeAll")),
        "case_ids", Get(data, "caseIds")),
        "config_ids", Get(data, "configIds")),
        "refs", Get(data, "refs")),
        "runs", Get(data, "runs"))

PlansClient_addPlanEntry(planId, data) ==
    ClientCall(HttpPost("/api/v2/add_plan_entry/" \o JSString(planId),
                        AddPlanEntryPayload(data)),
               "Failed to add plan entry to plan " \o JSString(planId), TRUE)

AddRunToPlanEntryPayload(data) ==
    SetIf(SetIf(
    SetIfDefined(
    SetIf(SetIf([config_ids |-> Get(data, "configIds")],
        "description", Get(data, "description")),
        "assignedto_id", Get(data, "assignedtoId")),
        "include_all", Get(data, "includeAll")),
        "case_ids", Get(data, "caseIds")),
        "refs", Get(data, "refs"))

PlansClient_addRunToPlanEntry(planId, entryId, data) ==
    ClientCall(HttpPost("/api/v2/add_run_to_plan_entry/" \o JSString(planId)
                            \o "/" \o JSString(entryId),
                        AddRunToPlanEntryPayload(data)),
               "Failed to add run to plan entry " \o JSString(entryId)
                   \o " in plan " \o JSString(planId), TRUE)

ResultsClient_addResultForCase(runId, caseId, data) ==
    ClientCall(HttpPost("/api/v2/add_result_for_case/" \o JSString(runId)
                            \o "/" \o JSString(caseId), data),
               "Failed to add result for case " \o JSString(caseId)
                   \o " in run " \o JSString(runId), TRUE)

CasesClient_getCaseHistory(caseId) ==
    ClientCall(HttpGet("/api/v2/get_history_for_case/" \o JSString(caseId)),
               "Failed to get test case history", TRUE)

CasesClient_copyToSection(caseIds, sectionId) ==
    ClientCall(HttpPost("/api/v2/copy_cases_to_section/" \o JSString(sectionId),
                        [case_ids |-> caseIds]),
               "Failed to copy test cases to section " \o JSString(sectionId), TRUE)

CasesClient_moveToSection(caseIds, sectionId) ==
    ClientCall(HttpPost("/api/v2/move_cases_to_section/" \o JSString(sectionId),
                        [case_ids |-> caseIds]),
               "Failed to move test cases to section " \o JSString(sectionId), TRUE)

MilestonesClient_deleteMilestoneVerb(milestoneId) ==
    ClientCall([HttpPost("/api/v2/delete_milestone/" \o JSString(milestoneId), EmptyObj)
                    EXCEPT !.method = "DELETE"],
               "Failed to delete milestone " \o JSString(milestoneId), FALSE)
MilestonesClient_deleteMilestone(milestoneId) ==
    ClientCall(HttpPost("/api/v2/delete_milestone/" \o JSString(milestoneId), EmptyObj),
               "Failed to delete milestone " \o JSString(milestoneId), FALSE)

\* The batch result calls of the results client: one POST of the data handed in.
ResultsClient_addResults(runId, data) ==
    ClientCall(HttpPost("/api/v2/add_results/" \o JSString(runId), data),
               "Failed to add results for run " \o JSString(runId), TRUE)

ResultsClient_addResultsForCases(runId, data) ==
    ClientCall(HttpPost("/api/v2/add_results_for_cases/" \o JSString(runId), data),
               "Failed to add results for cases in run " \o JSString(runId), TRUE)

RunsClient_addRun(projectId, data) ==
    ClientCall(HttpPost("/api/v2/add_run/" \o JSString(projectId), data),
               "Failed to add test run to project " \o JSString(projectId), TRUE)

RunsClient_updateRun(runId, data) ==
    ClientCall(HttpPost("/api/v2/update_run/" \o JSString(runId), data),
               "Failed to update test run " \o JSString(runId), TRUE)

MilestonesClient_addMilestone(projectId, data) ==
    ClientCall(HttpPost("/api/v2/add_milestone/" \o JSString(projectId), data),
               "Failed to add milestone to project " \o JSString(projectId), TRUE)

MilestonesClient_updateMilestone(milestoneId, data) ==
    ClientCall(HttpPost("/api/v2/update_milestone/" \o JSString(milestoneId), data),
               "Failed to update milestone " \o JSString(milestoneId), TRUE)

\* The shared step client: one POST carrying the data it is handed.
SharedStepsClient_addSharedStep(projectId, data) ==
    ClientCall(HttpPost("/api/v2/add_shared_step/" \o JSString(projectId), data),
               "Failed to add shared step to project " \o JSString(projectId), TRUE)

SharedStepsClient_updateSharedStep(sharedStepId, data) ==
    ClientCall(HttpPost("/api/v2/update_shared_step/" \o JSString(sharedStepId), data),
               "Failed to update shared step " \o JSString(sharedStepId), TRUE)

\* getRuns: get(url, { params: filters })
RunsClient_getRuns(projectId, filters) ==
    ClientCall(HttpGetParams("/api/v2/get_runs/" \o JSString(projectId), filters),
               "Failed to get test runs for project " \o JSString(projectId), TRUE)

RunsClient_getRun(runId) ==
    ClientCall(HttpGet("/api/v2/get_run/" \o JSString(runId)),
               "Failed to get test run " \o JSString(runId), TRUE)

MilestonesClient_getMilestone(milestoneId) ==
    ClientCall(HttpGet("/api/v2/get_milestone/" \o JSString(milestoneId)),
               "Failed to get milestone " \o JSString(milestoneId), TRUE)

\* handleApiError(error, message): the normalized error, carrying the
\* operation message and the original cause.
handleApiError(error, message) ==
    [kind |-> "ApiError", message |-> message, cause |-> error]

\* How a client method settles once the transport has answered: it returns
\* response.data, returns nothing, or throws the normalized error.
ClientSettleSwallows(cc, http) ==
    [threw |-> FALSE, hasValue |-> cc.returnsData, value |-> http.data,
     error |-> handleApiError([status |-> 0, message |-> ""], "")]
ClientSettle(cc, http) ==
    IF http.ok
    THEN [threw |-> FALSE, hasValue |-> cc.returnsData, value |-> http.data,
          error |-> handleApiError([status |-> 0, message |-> ""], "")]
    ELSE [threw |-> TRUE, hasValue |-> FALSE, value |-> http.data,
          error |-> handleApiError(http.error, cc.failMessage)]

-----------------------------------------------------------------------------
(* The tool handlers. *)

\* Default columns that exclude large text fields.
defaultColumnsWithSteps ==
    {"id", "title", "section_id", "template_id", "type_id", "priority_id",
     "milestone_id", "refs", "estimate", "suite_id", "display_order",
     "is_deleted", "status_id", "updated_on", "created_on", "created_by",
     "updated_by", "custom_steps"}
defaultColumns ==
    {"id", "title", "section_id", "template_id", "type_id", "priority_id",
     "milestone_id", "refs", "estimate", "suite_id", "display_order",
     "is_deleted", "status_id", "updated_on", "created_on", "created_by",
     "updated_by"}

\* The destructuring default `name = d`: d stands in for undefined only.
DestructureDefault(v, d) == IF v = Undefined THEN d ELSE v

\* The loop that deletes undefined, null and "" entries of data.
StripEmpty(data) ==
    [k \in {x \in DOMAIN data : data[x] \notin {Undefined, Null, Str("")}} |-> data[k]]

\* The six `if (...)` assignments every case handler starts with.
CommonCaseData(a) ==
    SetIf(SetIf(SetIf(SetIf(SetIf(SetIf(EmptyObj,
        "title", a.title),
        "type_id", a.typeId),
        "priority_id", a.priorityId),
        "estimate", a.estimate),
        "milestone_id", a.milestoneId),
        "refs", a.refs)

AddCaseData(a) == StripEmpty(CommonCaseData(a))

UpdateCaseData(a) == CommonCaseData(a)

UpdateCasesData(a) ==
    StripEmpty(
        SetIf(SetIf(SetIf(CommonCaseData(a),
            "custom_preconds", a.customPrerequisites),
            "custom_steps", a.customSteps),
            "custom_expected", a.customExpected))

AddResultForCaseData(a) ==
    SetIf(SetIf(SetIf(SetIf(SetIf(SetIf(EmptyObj,
        "status_id", a.statusId),
        "comment", a.comment),
        "version", a.version),
        "elapsed", a.elapsed),
        "defects", a.defects),
        "assignedto_id", a.assignedtoId)

\* results.map(result => { const resultData = { test_id: result.testId }; ... })
ResultItemData(result, idKey, wireKey) ==
    SetIf(SetIf(SetIf(SetIf(SetIf(SetIf([k \in {wireKey} |-> Get(result, idKey)],
        "status_id", Get(result, "statusId")),
        "comment", Get(result, "comment")),
        "version", Get(result, "version")),
        "elapsed", Get(result, "elapsed")),
        "defects", Get(result, "defects")),
        "assignedto_id", Get(result, "assignedtoId"))

\* A map whose resultData object is shared by all elements: the fields of
\* the first element stay set in the later ones.
AddResultsDataShared(a) ==
    [results |-> Items([i \in 1..Len(a.results.items) |->
                           Put(ResultItemData(a.results.items[1], "testId", "test_id"),
                               "test_id", Get(a.results.items[i], "testId"))])]
AddResultsData(a) ==
    [results |-> Items([i \in 1..Len(a.results.items) |->
                           ResultItemData(a.results.items[i], "testId", "test_id")])]
AddResultsForCasesData(a) ==
    [results |-> Items([i \in 1..Len(a.results.items) |->
                           ResultItemData(a.results.items[i], "caseId", "case_id")])]

\* The data object of addRun and of updateRun: every key is written, an
\* omitted argument as undefined.
AddRunData(a) ==
    [name |-> a.name, suite_id |-> a.suiteId, description |-> a.description,
     milestone_id |-> a.milestoneId, assignedto_id |-> a.assignedtoId,
     include_all |-> a.includeAll, case_ids |-> a.caseIds,
     config_ids |-> a.configIds, refs |-> a.refs]
UpdateRunData(a) ==
    [name |-> a.name, description |-> a.description,
     milestone_id |-> a.milestoneId, assignedto_id |-> a.assignedtoId,
     include_all |-> a.includeAll, case_ids |-> a.caseIds, refs |-> a.refs]

\* A destructuring that leaves the identifier in the rest record.
RestKeeping(a, key) == a
\* const { projectId, ...data } = milestoneData
RestWithout(a, key) == [k \in DOMAIN a \ {key} |-> a[k]]

\* `v || null`
OrNull(v) == IF Truthy(v) THEN v ELSE Null

\* steps.map(step => ({ content, expected, additional_info, refs }))
StepsPayload(steps) ==
    Items([i \in 1..Len(steps.items) |->
              [content |-> Get(steps.items[i], "content"),
               expected |-> OrNull(Get(steps.items[i], "expected")),
               additional_info |-> OrNull(Get(steps.items[i], "additionalInfo")),
               refs |-> OrNull(Get(steps.items[i], "refs"))]])

AddSharedStepData(a) ==
    [title |-> a.title, custom_steps_separated |-> StepsPayload(a.steps)]
UpdateSharedStepData(a) ==
    LET titled == SetIf(EmptyObj, "title", a.title)
    IN  IF Truthy(a.steps)
        THEN Put(titled, "custom_steps_separated", StepsPayload(a.steps))
        ELSE titled

\* The filters the getCases handler hands to the client.
GetCasesFiltersFixedOffset(a) ==
    [suite_id |-> a.suiteId, limit |-> a.limit, offset |-> Num(0)]
GetCasesFilters(a) ==
    [suite_id |-> a.suiteId,
     limit |-> DestructureDefault(a.limit, Num(50)),
     offset |-> DestructureDefault(a.offset, Num(0))]

\* Array.prototype.join(",") of an array of numbers.
RECURSIVE Join(_)
Join(q) ==
    IF Len(q) = 0 THEN ""
    ELSE IF Len(q) = 1 THEN ToString(q[1])
    ELSE ToString(q[1]) \o "," \o Join(Tail(q))

\* A handler that forwards the list under the name it arrived with.
GetRunsParamsUnrenamed(a) ==
    RestWithout(RestWithout(a, "projectId"), "createdBy")
        @@ (IF Truthy(a.createdBy) THEN [createdBy |-> a.createdBy] ELSE EmptyObj)
\* getRuns: params = { ...filters }, and created_by when createdBy is truthy.
GetRunsParams(a) ==
    LET filters == RestWithout(RestWithout(a, "projectId"), "createdBy")
    IN  IF Truthy(a.createdBy)
        THEN Put(filters, "created_by", Str(Join(a.createdBy.a)))
        ELSE filters

\* The record a handler hands to its client method as `data`.
HandlerData(tool, a) ==
    CASE tool = "addCase" -> AddCaseData(a)
      [] tool = "updateCase" -> UpdateCaseData(a)
      [] tool = "addResultForCase" -> AddResultForCaseData(a)
      [] tool = "addMilestone" -> RestWithout(a, "projectId")
      [] tool = "updateMilestone" -> RestWithout(a, "milestoneId")
      [] tool = "addPlan" -> RestWithout(a, "projectId")
      [] tool = "addPlanEntry" -> RestWithout(a, "planId")
      [] tool = "addRunToPlanEntry" ->
            RestWithout(RestWithout(a, "planId"), "entryId")

\* The Resource Client call each handler makes with its parsed arguments.
HandlerCall(tool, a) ==
    CASE tool = "getCase" -> CasesClient_getCase(a.caseId)
      [] tool = "getCases" ->
            CasesClient_getCases(a.projectId, a.suiteId, GetCasesFilters(a))
      [] tool = "addCase" -> CasesClient_addCase(a.sectionId, AddCaseData(a))
      [] tool = "updateCase" -> CasesClient_updateCase(a.caseId, UpdateCaseData(a))
      [] tool = "deleteCase" -> CasesClient_deleteCase(a.caseId)
      [] tool = "updateCases" ->
            CasesClient_updateCases(a.projectId, a.suiteId, UpdateCasesData(a),
                                    a.caseIds)
      [] tool = "getPlans" -> PlansClient_getPlans(a.projectId)
      [] tool = "addResultForCase" ->
            ResultsClient_addResultForCase(a.runId, a.caseId, AddResultForCaseData(a))
      [] tool = "getRun" -> RunsClient_getRun(a.runId)
      [] tool = "getMilestone" -> MilestonesClient_getMilestone(a.milestoneId)
      [] tool = "deleteMilestone" -> MilestonesClient_deleteMilestone(a.milestoneId)
      [] tool = "getCaseHistory" -> CasesClient_getCaseHistory(a.caseId)
      [] tool = "copyToSection" -> CasesClient_copyToSection(a.caseIds, a.sectionId)
      [] tool = "moveToSection" -> CasesClient_moveToSection(a.caseIds, a.sectionId)
      [] tool = "addResults" -> ResultsClient_addResults(a.runId, AddResultsData(a))
      [] tool = "addResultsForCases" ->
            ResultsClient_addResultsForCases(a.runId, AddResultsForCasesData(a))
      [] tool = "addRun" -> RunsClient_addRun(a.projectId, AddRunData(a))
      [] tool = "updateRun" -> RunsClient_updateRun(a.runId, UpdateRunData(a))
      [] tool = "addMilestone" ->
            MilestonesClient_addMilestone(a.projectId, HandlerData(tool, a))
      [] tool = "updateMilestone" ->
            MilestonesClient_updateMilestone(a.milestoneId, HandlerData(tool, a))
      [] tool = "addSharedStep" ->
            SharedStepsClient_addSharedStep(a.projectId, AddSharedStepData(a))
      [] tool = "updateSharedStep" ->
            SharedStepsClient_updateSharedStep(a.sharedStepId, UpdateSharedStepData(a))
      [] tool = "getRuns" -> RunsClient_getRuns(a.projectId, GetRunsParams(a))
      [] tool = "addPlan" -> PlansClient_addPlan(a.projectId, HandlerData(tool, a))
      [] tool = "addPlanEntry" ->
            PlansClient_addPlanEntry(a.planId, HandlerData(tool, a))
      [] tool = "addRunToPlanEntry" ->
            PlansClient_addRunToPlanEntry(a.planId, a.entryId, HandlerData(tool, a))

\* The two envelope shapes, before JSON.stringify.
createSuccessResponse(message, hasData, data) ==
    [success |-> TRUE, message |-> message, hasData |-> hasData, data |-> data,
     hasError |-> FALSE, error |-> handleApiError([status |-> 0, message |-> ""], "")]
createErrorResponse(message, error) ==
    [success |-> FALSE, message |-> message, hasData |-> FALSE, data |-> EmptyObj,
     hasError |-> TRUE, error |-> error]

\* What a handler returns: the content block holding the envelope, and the
\* isError flag of the response.
ToolResponse(envelope, isError) ==
    [kind |-> "returned", isError |-> isError, envelope |-> envelope]
\* An exception leaving the handler.
ToolThrows(error) ==
    [kind |-> "threw", isError |-> FALSE, envelope |-> createErrorResponse("", error)]

\* The body of the map callback of getCases: id, then every default column
\* the upstream item has.
FilterCase(testCase) ==
    [k \in {"id"} \cup {c \in defaultColumns : c \in DOMAIN testCase /\ c # "id"} |->
        IF k = "id" THEN Get(testCase, "id") ELSE testCase[k]]

\* hasMore: testCases._links.next !== null
HasMore(links) == Get(links, "next") # Null

\* The pagination block of the getCases envelope.
Pagination(a, testCases) ==
    [limit |-> GetCasesFilters(a).limit,
     offset |-> GetCasesFilters(a).offset,
     total |-> testCases.size,
     hasMore |-> Bool(HasMore(testCases.links))]

\* A handler that collects the filtered cases last to first.
GetCasesDataReversed(a, testCases) ==
    [cases |-> [i \in 1..Len(testCases.cases) |->
                    JSONObject(FilterCase(
                        testCases.cases[Len(testCases.cases) + 1 - i]))],
     pagination |-> JSONObject(Pagination(a, testCases))]
\* The data of the getCases envelope as JSON.stringify writes it.
GetCasesData(a, testCases) ==
    [cases |-> [i \in 1..Len(testCases.cases) |->
                    JSONObject(FilterCase(testCases.cases[i]))],
     pagination |-> JSONObject(Pagination(a, testCases))]

\* Reading testCases.cases.map or testCases._links.next of undefined throws a
\* TypeError inside the try block.
GetCasesThrows(testCases) == ~testCases.hasCases \/ ~testCases.hasLinks

TypeError == [kind |-> "TypeError", message |-> "Cannot read properties of undefined",
              cause |-> [status |-> 0, message |-> ""]]

\* The message of each handler's catch block.
ErrorMessageNoId(tool, a) == "Error fetching test case"
ErrorMessage(tool, a) ==
    CASE tool = "getCase" -> "Error fetching test case " \o JSString(a.caseId)
      [] tool = "getCases" ->
            "Error fetching test cases for project " \o JSString(a.projectId)
      [] tool = "addCase" ->
            "Error creating test case in section " \o JSString(a.sectionId)
      [] tool = "updateCase" -> "Error updating test case " \o JSString(a.caseId)
      [] tool = "deleteCase" -> "Error deleting test case " \o JSString(a.caseId)
      [] tool = "updateCases" ->
            "Error updating test cases for project " \o JSString(a.projectId)
      [] tool = "getPlans" ->
            "Error fetching test plans for project " \o JSString(a.projectId)
      [] tool = "addResultForCase" ->
            "Error adding result for run " \o JSString(a.runId)
                \o " and case " \o JSString(a.caseId)
      [] tool = "getRun" -> "Error fetching test run " \o JSString(a.runId)
      [] tool = "getMilestone" -> "Error fetching milestone " \o JSString(a.milestoneId)
      [] tool = "deleteMilestone" ->
            "Error deleting milestone " \o JSString(a.milestoneId)
      [] tool = "getCaseHistory" ->
            "Error fetching history for test case " \o JSString(a.caseId)
      [] tool = "copyToSection" ->
            "Error copying test cases to section " \o JSString(a.sectionId)
      [] tool = "moveToSection" ->
            "Error moving test cases to section " \o JSString(a.sectionId)
      [] tool \in {"addResults", "addResultsForCases"} ->
            "Error adding results for run " \o JSString(a.runId)
      [] tool = "addRun" ->
            "Error creating test run for project " \o JSString(a.projectId)
      [] tool = "updateRun" -> "Error updating test run " \o JSString(a.runId)
      [] tool = "addMilestone" -> "Error creating milestone"
      [] tool = "updateMilestone" ->
            "Error updating milestone " \o JSString(a.milestoneId)
      [] tool = "addSharedStep" ->
            "Error adding shared step to project " \o JSString(a.projectId)
      [] tool = "updateSharedStep" ->
            "Error updating shared step " \o JSString(a.sharedStepId)
      [] tool = "getRuns" ->
            "Error fetching test runs for project " \o JSString(a.projectId)
      [] tool = "addPlan" ->
            "Error creating test plan in project " \o JSString(a.projectId)
      [] tool = "addPlanEntry" ->
            "Error adding plan entry to plan " \o JSString(a.planId)
      [] tool = "addRunToPlanEntry" ->
            "Error adding run to plan entry " \o JSString(a.entryId)
                \o " in plan " \o JSString(a.planId)

\* The catch block of a handler.
HandlerCatchRethrows(tool, a, error) == ToolThrows(error)
HandlerCatch(tool, a, error) ==
    ToolResponse(createErrorResponse(ErrorMessage(tool, a), error), TRUE)

\* The payload of getCase's success envelope.
GetCaseDataFiltered(testCase) == [case |-> JSONObject(FilterCase(testCase))]
GetCaseData(testCase) == [case |-> testCase]

\* The rest of the try block once the client call has returned `value`.
HandlerThenResultKey(tool, a, value) ==
    createSuccessResponse("Retrieved successfully", TRUE, [result |-> value])
HandlerThen(tool, a, value) ==
    CASE tool = "getCase" ->
            createSuccessResponse("Test case retrieved successfully", TRUE,
                                  GetCaseData(value))
      [] tool = "getCases" ->
            createSuccessResponse("Test cases retrieved successfully", TRUE,
                                  GetCasesData(a, value))
      [] tool = "addCase" ->
            createSuccessResponse("Test case created successfully", TRUE,
                                  [case |-> value])
      [] tool = "updateCase" ->
            createSuccessResponse("Test case updated successfully", TRUE,
                                  [case |-> value])
      [] tool = "deleteCase" ->
            createSuccessResponse("Test case " \o JSString(a.caseId)
                                      \o " deleted successfully", FALSE, EmptyObj)
      [] tool = "updateCases" ->
            createSuccessResponse("Test cases updated successfully", FALSE, EmptyObj)
      [] tool = "getPlans" ->
            createSuccessResponse("Test plans retrieved successfully", TRUE,
                                  [plans |-> value])
      [] tool = "addResultForCase" ->
            createSuccessResponse("Result added successfully", TRUE,
                                  [result |-> value])
      [] tool = "getRun" ->
            createSuccessResponse("Test run retrieved successfully", TRUE,
                                  [run |-> value])
      [] tool = "getMilestone" ->
            createSuccessResponse("Milestone retrieved successfully", TRUE,
                                  [milestone |-> value])
      [] tool = "deleteMilestone" ->
            createSuccessResponse("Milestone deleted successfully", TRUE, EmptyObj)
      [] tool = "getCaseHistory" ->
            createSuccessResponse("Test case history retrieved successfully", TRUE,
                                  [history |-> value])
      [] tool = "copyToSection" ->
            createSuccessResponse("Test cases copied successfully", TRUE,
                                  [result |-> value])
      [] tool = "moveToSection" ->
            createSuccessResponse("Test cases moved successfully", TRUE,
                                  [result |-> value])
      [] tool \in {"addResults", "addResultsForCases"} ->
            createSuccessResponse("Results added successfully", TRUE, [results |-> value])
      [] tool = "addRun" ->
            createSuccessResponse("Test run created successfully", TRUE, [run |-> value])
      [] tool = "updateRun" ->
            createSuccessResponse("Test run updated successfully", TRUE, [run |-> value])
      [] tool = "addMilestone" ->
            createSuccessResponse("Milestone created successfully", TRUE,
                                  [milestone |-> value])
      [] tool = "updateMilestone" ->
            createSuccessResponse("Milestone updated successfully", TRUE,
                                  [milestone |-> value])
      [] tool = "addSharedStep" ->
            createSuccessResponse("Shared step added successfully", TRUE,
                                  [sharedStep |-> value])
      [] tool = "updateSharedStep" ->
            createSuccessResponse("Shared step updated successfully", TRUE,
                                  [sharedStep |-> value])
      [] tool = "getRuns" ->
            createSuccessResponse("Test runs retrieved successfully", TRUE,
                                  [runs |-> value])
      [] tool = "addPlan" ->
            createSuccessResponse("Test plan created successfully", TRUE,
                                  [plan |-> value])
      [] tool = "addPlanEntry" ->
            createSuccessResponse("Plan entry added successfully", TRUE,
                                  [entry |-> value])
      [] tool = "addRunToPlanEntry" ->
            createSuccessResponse("Test run added to plan entry successfully", TRUE,
                                  [run |-> value])

\* The handler from the point its client call settles.
HandlerFinish(tool, a, settled) ==
    IF settled.threw
    THEN HandlerCatch(tool, a, settled.error)
    ELSE IF tool = "getCases" /\ GetCasesThrows(settled.value)
         THEN HandlerCatch(tool, a, TypeError)
         ELSE ToolResponse(HandlerThen(tool, a, settled.value), FALSE)

-----------------------------------------------------------------------------
(* The environment: the arguments callers supply and the upstream's answers. *)

\* A number for each numeric argument of the base records.
BaseNumber(k) ==
    CASE k = "caseId" -> 999
      [] k = "projectId" -> 1
      [] k = "suiteId" -> 3
      [] k = "sectionId" -> 4
      [] k = "runId" -> 5
      [] k = "limit" -> 10
      [] k = "offset" -> 20
      [] OTHER -> 2

\* The base record of a tool: every field supplied with a value of its type.
BaseArgs(schema) ==
    [k \in DOMAIN schema |->
        CASE schema[k].type = "number" -> Num(BaseNumber(k))
          [] schema[k].type = "string" -> Str("x-" \o k)
          [] schema[k].type = "numberArray" -> Arr(<<1, 2, 3>>)
          [] schema[k].type = "boolean" -> Bool(TRUE)
          [] schema[k].type \in {"testResultArray", "caseResultArray"} ->
                Items(<<[x \in {ResultIdKey(schema[k].type)} |-> Num(1)]>>)
          [] schema[k].type = "entryArray" ->
                Items(<<[suite_id |-> Num(6), name |-> Str("Test Run 1")]>>)
          [] schema[k].type = "recordArray" ->
                Items(<<[config_ids |-> Arr(<<1>>)]>>)
          [] schema[k].type = "stepArray" ->
                Items(<<[content |-> Str("Step 1"), expected |-> Str("Result 1")]>>)]

\* What a caller may supply instead: nothing, other values of the right
\* type (a falsy one among them), a value of a wrong type.
Alternatives(f) ==
    CASE f.type = "number" -> {Undefined, Num(0), Num(12), Str("x")}
      [] f.type = "string" -> {Undefined, Str(""), Null}
      [] f.type = "numberArray" -> {Undefined, Arr(<<>>), BadArr}
      [] f.type = "boolean" -> {Undefined, Bool(FALSE), Str("x")}
      [] f.type \in {"testResultArray", "caseResultArray"} ->
            LET id == ResultIdKey(f.type)
                item(n, rest) == [k \in {id} \cup DOMAIN rest |->
                                     IF k = id THEN Num(n) ELSE rest[k]]
            IN  {Undefined,
                 Items(<<>>),
                 Items(<<item(1, [statusId |-> Num(1), comment |-> Str("passed")]),
                         item(2, [elapsed |-> Str("30s"), assignedtoId |-> Num(3)])>>),
                 Items(<<item(2, [statusId |-> Num(5), defects |-> Str("BUG-1")]),
                         item(1, [statusId |-> Num(0), comment |-> Str(""),
                                  version |-> Undefined]),
                         item(3, EmptyObj)>>),
                 Items(<<[statusId |-> Num(1)]>>)}
      [] f.type = "entryArray" ->
            {Undefined, Items(<<>>), Items(<<[name |-> Str("Test Run 1")]>>)}
      [] f.type = "recordArray" -> {Undefined, Items(<<>>), Str("x")}
      [] f.type = "stepArray" ->
            {Undefined,
             Items(<<>>),
             Items(<<[content |-> Str("Step 1")],
                     [content |-> Str("Step 2"), expected |-> Str(""),
                      additionalInfo |-> Str("info"), refs |-> Undefined]>>),
             Items(<<[expected |-> Str("Result 1")]>>)}

\* The records that differ from base in at most k fields.
RECURSIVE Variations(_, _, _)
Variations(base, schema, k) ==
    IF k = 0
    THEN {base}
    ELSE LET prev == Variations(base, schema, k - 1)
         IN  prev \cup UNION {UNION {{[r EXCEPT ![key] = v] :
                                         v \in Alternatives(schema[key])} :
                                     key \in DOMAIN schema} : r \in prev}

\* The argument records a caller hands to each tool.
ToolArgs ==
    [tool \in Tools |-> Variations(BaseArgs(ToolSchema(tool)), ToolSchema(tool), MaxVaried)]

\* Case records as the upstream holds them.
PlainCase(id) == [id |-> Num(id), title |-> Str("T"), section_id |-> Num(1)]
RichCase(id) ==
    [id |-> Num(id), title |-> Str("T"), refs |-> Null,
     custom_preconds |-> Str("pre"), custom_steps |-> Str("steps"),
     custom_expected |-> Str("exp"), estimate_forecast |-> Null]
UpstreamCases ==
    {PlainCase(1), RichCase(2), RichCase(1),
     [id |-> Num(1), title |-> Str("T"), custom_steps |-> Null],
     [title |-> Str("T"), section_id |-> Num(1)]}

\* Sequences over S of length at most n.
SeqUpTo(S, n) == UNION {[1..m -> S] : m \in 0..n}

\* The _links object of a page: no next page, a next page, no `next` key.
UpstreamLinks ==
    {[next |-> Null, prev |-> Null],
     [next |-> Str("/api/v2/get_cases/1&limit=10&offset=30"), prev |-> Null],
     [prev |-> Null]}

\* The bodies the upstream may answer get_cases with; the last two lack the
\* `_links` and the `cases` member.
Page(cases, links) ==
    [hasCases |-> TRUE, cases |-> cases, offset |-> Num(0), limit |-> Num(50),
     size |-> Num(Len(cases)), hasLinks |-> TRUE, links |-> links]
UpstreamPages ==
    {Page(cases, links) : cases \in SeqUpTo(UpstreamCases, MaxPage), links \in UpstreamLinks}
        \cup {[Page(<<>>, [prev |-> Null]) EXCEPT !.hasLinks = FALSE],
              [Page(<<>>, [prev |-> Null]) EXCEPT !.hasCases = FALSE]}

\* The transport's failures: a non-2xx status and a timeout.
NoCause == [status |-> 0, message |-> ""]
TransportErrors ==
    {[status |-> 404, message |-> "Request failed with status code 404"],
     [status |-> 0, message |-> "timeout of 30000ms exceeded"]}

HttpOk(data) == [ok |-> TRUE, data |-> data, error |-> NoCause]
HttpFail(error) == [ok |-> FALSE, data |-> EmptyObj, error |-> error]

\* The response bodies of each endpoint.
UpstreamBodies(name) ==
    CASE name \in {"getCase", "addCase", "updateCase",
                   "CasesClient.addCase", "CasesClient.updateCase"} -> UpstreamCases
      [] name \in {"getCases", "CasesClient.getCases"} -> UpstreamPages
      [] name = "getPlans" ->
            {<<>>, <<[id |-> Num(1), name |-> Str("Plan")]>>}
      [] name = "getRuns" ->
            {<<>>, <<[id |-> Num(5), name |-> Str("Run")]>>}
      [] name = "addResultForCase" ->
            {[id |-> Num(1), test_id |-> Num(1), status_id |-> Num(1)]}
      [] name = "getCaseHistory" ->
            {<<>>, <<[id |-> Num(1), type_id |-> Num(6), user_id |-> Num(1)]>>}
      [] name \in {"copyToSection", "moveToSection"} -> {[status |-> Bool(TRUE)]}
      [] name \in {"addResults", "addResultsForCases"} ->
            {Items(<<[id |-> Num(71), status_id |-> Num(1)],
                     [id |-> Num(72), status_id |-> Num(5)]>>)}
      [] name \in {"addRun", "updateRun", "addMilestone", "updateMilestone",
                    "addSharedStep", "updateSharedStep", "addPlan", "addPlanEntry",
                    "addRunToPlanEntry", "PlansClient.addPlan",
                    "PlansClient.addPlanEntry", "PlansClient.addRunToPlanEntry"} ->
            {[id |-> Num(7), name |-> Str("Created")]}
      [] name = "getRun" ->
            {[id |-> Num(5), name |-> Str("Run"), is_completed |-> Bool(FALSE),
              description |-> Null]}
      [] name = "getMilestone" ->
            {[id |-> Num(2), name |-> Str("M1"), due_on |-> Null],
             [id |-> Num(2), name |-> Str("M1"), milestones |-> Arr(<<>>)]}
      [] OTHER -> {EmptyObj}

\* How the transport may settle the request of a call.
HttpOutcomes(name) ==
    {HttpOk(d) : d \in UpstreamBodies(name)} \cup {HttpFail(e) : e \in TransportErrors}

\* The records the client tests hand to the CasesClient methods as `data`:
\* well-typed ones, one that carries a case_ids of its own, and the
\* ill-typed ones of the "rejects invalid data" tests.
Steps == [t |-> "steps", n |-> 0, s |-> "", a |-> <<>>]
BadSteps == [t |-> "badsteps", n |-> 0, s |-> "", a |-> <<>>]
ValidCaseData ==
    {EmptyObj,
     [title |-> Str("X")],
     [title |-> Str("Updated Test Case"), type_id |-> Num(2), priority_id |-> Num(3)],
     [template_id |-> Num(2), custom_steps_separated |-> Steps],
     [title |-> Str("X"), case_ids |-> Arr(<<9>>)]}
InvalidCaseData ==
    {[title |-> Num(123), type_id |-> Str("invalid"), custom_steps_separated |-> BadSteps],
     [title |-> Null, priority_id |-> Str("high"), custom_steps_separated |-> Str("invalid")],
     [template_id |-> Str("two"), custom_steps_separated |-> BadSteps]}

ClientMethods ==
    {"CasesClient.addCase", "CasesClient.updateCase", "CasesClient.updateCases",
     "CasesClient.deleteCases", "CasesClient.getCases", "PlansClient.addPlan",
     "PlansClient.addPlanEntry", "PlansClient.addRunToPlanEntry"}

\* The data handed to a direct PlansClient call: the required field alone,
\* every optional field, and optional fields holding false, 0, "" and [].
PlanData ==
    {[name |-> Str("Test Plan")],
     [name |-> Str("Plan with Entries"), description |-> Str("Test plan with test runs"),
      milestoneId |-> Num(1),
      entries |-> Items(<<[suite_id |-> Num(6), name |-> Str("Test Run 1"),
                           include_all |-> Bool(TRUE)]>>)],
     [name |-> Str("Test Plan"), description |-> Str(""), milestoneId |-> Undefined],
     [name |-> Str("Test Plan"), milestoneId |-> Num(0)]}
PlanEntryData ==
    {[suiteId |-> Num(6)],
     [suiteId |-> Num(6), name |-> Str("Specific Cases Run"),
      description |-> Str("Test specific cases"), assignedtoId |-> Num(2),
      includeAll |-> Bool(FALSE), caseIds |-> Arr(<<1, 2, 3>>),
      configIds |-> Arr(<<1, 2>>), refs |-> Str("REQ-123")],
     [suiteId |-> Num(6), includeAll |-> Bool(TRUE), caseIds |-> Arr(<<>>),
      refs |-> Str("")],
     [suiteId |-> Num(6), assignedtoId |-> Num(0)]}
RunToPlanEntryData ==
    {[configIds |-> Arr(<<1>>)],
     [configIds |-> Arr(<<1>>), description |-> Str("Test specific cases"),
      assignedtoId |-> Num(2), includeAll |-> Bool(FALSE),
      caseIds |-> Arr(<<1, 2, 3>>), refs |-> Str("REQ-123")],
     [configIds |-> Arr(<<1>>), includeAll |-> Bool(TRUE), description |-> Str(""),
      refs |-> Undefined],
     [configIds |-> Arr(<<1>>), assignedtoId |-> Num(0)]}

\* The filters handed to a direct CasesClient.getCases.
GetCasesFilterSets ==
    {EmptyObj,
     [limit |-> Num(50), offset |-> Num(0)],
     [section_id |-> Num(4), suite_id |-> Num(9)]}

\* The suite identifiers and case id lists of direct client calls; null is
\* "no suite".
SuiteIds == {Null, Num(0), Num(1), Num(3)}
CaseIdLists == {Arr(<<1, 2, 3>>), Arr(<<3, 1>>), Arr(<<>>)}

\* The plain arguments of a direct client call (its data goes separately).
ClientArgs(method) ==
    CASE method = "CasesClient.addCase" -> {[sectionId |-> Num(1)]}
      [] method = "CasesClient.updateCase" -> {[caseId |-> Num(1)]}
      [] method \in {"CasesClient.updateCases", "CasesClient.deleteCases"} ->
            {[projectId |-> Num(1), suiteId |-> sid, caseIds |-> ids] :
                sid \in SuiteIds, ids \in CaseIdLists}
      [] method = "CasesClient.getCases" ->
            {[projectId |-> Num(1), suiteId |-> Num(1)]}
      [] method = "PlansClient.addPlan" -> {[projectId |-> Num(2)]}
      [] method = "PlansClient.addPlanEntry" -> {[planId |-> Num(15)]}
      [] method = "PlansClient.addRunToPlanEntry" ->
            {[planId |-> Num(15), entryId |-> Str("entry-id")]}

\* deleteCases takes no data; the data of getCases is its filters.
ClientData(method) ==
    CASE method = "CasesClient.deleteCases" -> {EmptyObj}
      [] method = "CasesClient.getCases" -> GetCasesFilterSets
      [] method = "PlansClient.addPlan" -> PlanData
      [] method = "PlansClient.addPlanEntry" -> PlanEntryData
      [] method = "PlansClient.addRunToPlanEntry" -> RunToPlanEntryData
      [] OTHER -> ValidCaseData \cup InvalidCaseData

\* A direct call of a client method.
ClientMethodCall(method, a, data) ==
    CASE method = "CasesClient.addCase" -> CasesClient_addCase(a.sectionId, data)
      [] method = "CasesClient.updateCase" -> CasesClient_updateCase(a.caseId, data)
      [] method = "CasesClient.updateCases" ->
            CasesClient_updateCases(a.projectId, a.suiteId, data, a.caseIds)
      [] method = "CasesClient.deleteCases" ->
            CasesClient_deleteCases(a.projectId, a.suiteId, a.caseIds)
      [] method = "CasesClient.getCases" ->
            CasesClient_getCases(a.projectId, a.suiteId, data)
      [] method = "PlansClient.addPlan" -> PlansClient_addPlan(a.projectId, data)
      [] method = "PlansClient.addPlanEntry" -> PlansClient_addPlanEntry(a.planId, data)
      [] method = "PlansClient.addRunToPlanEntry" ->
            PlansClient_addRunToPlanEntry(a.planId, a.entryId, data)

-----------------------------------------------------------------------------
(* The transports.  Every client object is constructed from the same        *)
(* configuration and creates its own transport from it; the aggregate       *)
(* client constructs one resource client per resource.                     *)

mockConfig ==
    [baseURL |-> "https://example.testrail.com",
     auth |-> [username |-> "test@example.com", password |-> "api_key"]]

\* The base client's constructor: axios.create with the base URL, the
\* credentials, the JSON content type and the fixed timeout.
CreateTransport(config) ==
    [baseURL |-> config.baseURL, auth |-> config.auth, timeout |-> 30000,
     headers |-> ("Content-Type" :> "application/json")]

\* The aggregate client and the resource clients it constructs.
ClientObjects == {"aggregate", "cases", "runs", "milestones"}

\* super(config); this.cases = new CasesClient(config); ...
InitialTransports == [o \in ClientObjects |-> CreateTransport(mockConfig)]

\* setHeader(name, value): this.client.defaults.headers.common[name] = value
setHeader(transport, name, value) ==
    [transport EXCEPT !.headers = Put(transport.headers, name, value)]

\* The client object whose transport sends the request of a tool.
ToolClient(tool) ==
    CASE tool \in {"getRun", "getRuns", "addRun", "updateRun"} -> "runs"
      [] tool = "deleteMilestone" -> "milestones"
      [] OTHER -> "cases"

-----------------------------------------------------------------------------
(* The state machine. *)

\* calls: the call in each slot.  store: the cases the upstream holds and
\* the next identifier it assigns.  history: the calls a session has
\* finished, oldest first.  transports: the HTTP transport each client
\* object holds.
VARIABLES calls, store, history, transports

vars == <<calls, store, history, transports>>

Slots == 1..MaxCalls

NoHttp == HttpFail(NoCause)
NoSettled == ClientSettle(ClientCall(HttpGet(""), "", FALSE), HttpOk(EmptyObj))
NoResult == [kind |-> "none", isError |-> FALSE,
             envelope |-> createErrorResponse("", handleApiError(NoCause, ""))]

\* A free slot.
Idle ==
    [pc |-> "idle", kind |-> "none", name |-> "", args |-> EmptyObj,
     parsed |-> EmptyObj, data |-> EmptyObj, requests |-> <<>>,
     http |-> NoHttp, settled |-> NoSettled, result |-> NoResult]

\* The upstream starts with one case and assigns identifiers from 1000 on.
InitialStore == [cases |-> [id \in {999} |-> RichCase(999)], nextId |-> 1000]

Init ==
    /\ calls = [c \in Slots |-> Idle]
    /\ store = InitialStore
    /\ history = <<>>
    /\ transports = InitialTransports

\* Calls are issued one at a time.
OthersIdle(c) == \A d \in Slots \ {c} : calls[d].pc = "idle"

\* The protocol server receives a tool call: it validates the arguments
\* against the registered schema and, only if they pass, runs the handler,
\* which builds its payload and awaits its client call.
CallTool(c) ==
    /\ calls[c].pc = "idle"
    /\ OthersIdle(c)
    /\ \E tool \in Tools : \E args \in ToolArgs[tool] :
        IF Valid(ToolSchema(tool), args)
        THEN LET a == Parse(ToolSchema(tool), args)
             IN  calls' = [calls EXCEPT ![c] =
                     [Idle EXCEPT !.pc = "awaiting", !.kind = "tool", !.name = tool,
                                  !.args = args, !.parsed = a,
                                  !.requests = <<HandlerCall(tool, a).request>>]]
        ELSE calls' = [calls EXCEPT ![c] =
                     [Idle EXCEPT !.pc = "done", !.kind = "tool", !.name = tool,
                                  !.args = args,
                                  !.result = [NoResult EXCEPT !.kind = "invalid",
                                                              !.isError = TRUE]]]
    /\ UNCHANGED <<store, history, transports>>

\* A caller (a test) invokes a CasesClient method directly.
CallClient(c) ==
    /\ calls[c].pc = "idle"
    /\ OthersIdle(c)
    /\ \E method \in ClientMethods :
        \E a \in ClientArgs(method) : \E data \in ClientData(method) :
            calls' = [calls EXCEPT ![c] =
                [Idle EXCEPT !.pc = "awaiting", !.kind = "client", !.name = method,
                             !.args = a, !.parsed = a, !.data = data,
                             !.requests = <<ClientMethodCall(method, a, data).request>>]]
    /\ UNCHANGED <<store, history, transports>>

\* A call in flight once the transport has settled its request with http:
\* the client method returns or throws, and a handler runs to its return.
\* A handler that goes on waiting when its request times out.
SettledHangs(call, http) ==
    IF ~http.ok /\ http.error.status = 0
    THEN [call EXCEPT !.pc = "suspended"]
    ELSE LET cc == IF call.kind = "tool"
                   THEN HandlerCall(call.name, call.parsed)
                   ELSE ClientMethodCall(call.name, call.parsed, call.data)
             settled == ClientSettle(cc, http)
         IN  [call EXCEPT !.pc = "done", !.http = http, !.settled = settled,
                          !.result = IF call.kind = "tool"
                                     THEN HandlerFinish(call.name, call.parsed, settled)
                                     ELSE NoResult]
\* A client that sends a failed request once more before giving up.
SettledRetries(call, http) ==
    IF ~http.ok /\ Len(call.requests) < 2
    THEN [call EXCEPT !.requests = Append(call.requests, call.requests[1])]
    ELSE LET cc == IF call.kind = "tool"
                   THEN HandlerCall(call.name, call.parsed)
                   ELSE ClientMethodCall(call.name, call.parsed, call.data)
             settled == ClientSettle(cc, http)
         IN  [call EXCEPT !.pc = "done", !.http = http, !.settled = settled,
                          !.result = IF call.kind = "tool"
                                     THEN HandlerFinish(call.name, call.parsed, settled)
                                     ELSE NoResult]
Settled(call, http) ==
    LET cc == IF call.kind = "tool"
              THEN HandlerCall(call.name, call.parsed)
              ELSE ClientMethodCall(call.name, call.parsed, call.data)
        settled == ClientSettle(cc, http)
    IN  [call EXCEPT !.pc = "done", !.http = http, !.settled = settled,
                     !.result = IF call.kind = "tool"
                                THEN HandlerFinish(call.name, call.parsed, settled)
                                ELSE NoResult]

\* The transport settles the request in flight.
Respond(c) ==
    /\ calls[c].pc = "awaiting"
    /\ \E http \in HttpOutcomes(calls[c].name) :
           calls' = [calls EXCEPT ![c] = Settled(calls[c], http)]
    /\ UNCHANGED <<store, history, transports>>

\* The caller has its answer; the slot is free again.
Return(c) ==
    /\ calls[c].pc = "done"
    /\ calls' = [calls EXCEPT ![c] = Idle]
    /\ UNCHANGED <<store, history, transports>>

Next == \E c \in Slots : CallTool(c) \/ CallClient(c) \/ Respond(c) \/ Return(c)

Spec == Init /\ [][Next]_vars

-----------------------------------------------------------------------------
(* Vocabulary of the properties. *)

Done(c) == calls[c].pc = "done"
ToolCall(c, tool) == calls[c].kind = "tool" /\ calls[c].name = tool
\* The handler of the call has run (the arguments passed validation).
Handled(c) == calls[c].kind = "tool" /\ calls[c].result.kind # "invalid"
\* The handler has returned a success envelope.
Succeeded(c) ==
    /\ Done(c)
    /\ Handled(c)
    /\ calls[c].result.kind = "returned"
    /\ calls[c].result.envelope.success

\* The decimal numeral of a natural number.
Digits == <<"0", "1", "2", "3", "4", "5", "6", "7", "8", "9">>
RECURSIVE Decimal(_)
Decimal(i) == IF i < 10 THEN Digits[i + 1] ELSE Decimal(i \div 10) \o Digits[(i % 10) + 1]

\* sub occurs in str.
Contains(str, sub) ==
    \E i \in 1..(Len(str) - Len(sub) + 1) : SubSeq(str, i, i + Len(sub) - 1) = sub

-----------------------------------------------------------------------------
(* A session: calls made one after another against an upstream that keeps   *)
(* the cases it is sent, answers get_case and delete_case of a case it does *)
(* not hold with a 400, and may be out of reach (the request times out).    *)

\* Number of calls in a session.
MaxSession == 3

HasPrefix(str, p) == Len(str) >= Len(p) /\ SubSeq(str, 1, Len(p)) = p

BadRequest == [status |-> 400, message |-> "Request failed with status code 400"]
Timeout == [status |-> 0, message |-> "timeout of 30000ms exceeded"]

\* The sections the upstream has.
UpstreamSections == {4}

\* The fields the upstream assigns itself, whatever the request body says.
ServerAssigned == {"id", "section_id", "created_on"}

\* The record the upstream keeps for an add_case request.
StoredCase(body, id, section) ==
    [k \in DOMAIN body \cup ServerAssigned |->
        CASE k = "id" -> Num(id)
          [] k = "section_id" -> Num(section)
          [] k = "created_on" -> Num(1609459200)
          [] OTHER -> body[k]]

\* The upstream serving one request: its answer and the store afterwards.
Upstream(st, req) ==
    LET held(prefix) == {id \in DOMAIN st.cases : req.url = prefix \o Decimal(id)}
        sections == {sec \in UpstreamSections :
                         req.url = "/api/v2/add_case/" \o Decimal(sec)}
        rejected == [http |-> HttpFail(BadRequest), store |-> st]
    IN  CASE req.method = "GET" /\ HasPrefix(req.url, "/api/v2/get_case/") ->
                IF held("/api/v2/get_case/") = {}
                THEN rejected
                ELSE [http |-> HttpOk(st.cases[CHOOSE id \in held("/api/v2/get_case/") : TRUE]),
                      store |-> st]
          [] req.method = "POST" /\ HasPrefix(req.url, "/api/v2/delete_case/") ->
                IF held("/api/v2/delete_case/") = {}
                THEN rejected
                ELSE [http |-> HttpOk(EmptyObj),
                      store |-> [st EXCEPT !.cases =
                                    [id \in DOMAIN st.cases \ held("/api/v2/delete_case/") |->
                                        st.cases[id]]]]
          [] req.method = "POST" /\ HasPrefix(req.url, "/api/v2/update_case/") ->
                IF held("/api/v2/update_case/") = {}
                THEN rejected
                ELSE LET id == CHOOSE i \in held("/api/v2/update_case/") : TRUE
                         updated == [k \in DOMAIN st.cases[id] \cup
                                            (DOMAIN req.body \ ServerAssigned) |->
                                        IF k \in DOMAIN req.body \ ServerAssigned
                                        THEN req.body[k] ELSE st.cases[id][k]]
                     IN  [http |-> HttpOk(updated),
                          store |-> [st EXCEPT !.cases =
                                        [i \in DOMAIN st.cases |->
                                            IF i = id THEN updated ELSE st.cases[i]]]]
          [] req.method = "POST" /\ HasPrefix(req.url, "/api/v2/add_case/") ->
                IF sections = {}
                THEN rejected
                ELSE LET created == StoredCase(req.body, st.nextId,
                                               CHOOSE sec \in sections : TRUE)
                     IN  [http |-> HttpOk(created),
                          store |-> [cases |-> [id \in DOMAIN st.cases \cup {st.nextId} |->
                                                   IF id = st.nextId THEN created
                                                   ELSE st.cases[id]],
                                     nextId |-> st.nextId + 1]]
          [] req.method = "POST" /\ HasPrefix(req.url, "/api/v2/add_results/") ->
                [http |-> HttpOk(Items([i \in 1..Len(req.body.results.items) |->
                                           Put(req.body.results.items[i], "id",
                                               Num(70 + i))])),
                 store |-> st]
          [] OTHER -> rejected

\* The calls of a session.
SessionTools == {"getCase", "deleteCase", "addCase", "updateCase"}
SessionCaseIds == {999, 1000}
SessionToolArgs(tool) ==
    CASE tool = "addCase" ->
            {BaseArgs(addTestCaseSchema),
             [BaseArgs(addTestCaseSchema) EXCEPT !.typeId = Num(0), !.refs = Undefined,
                                                 !.estimate = Str("")]}
      [] tool = "updateCase" -> {BaseArgs(updateTestCaseSchema)}
      [] OTHER -> {[caseId |-> Num(id)] : id \in SessionCaseIds}
SessionCaseData ==
    {[title |-> Str("X"), custom_steps |-> Str("do"), id |-> Num(5)],
     [title |-> Str("X"), type_id |-> Num(2), refs |-> Null]}

\* A tool call of the session: validated, then run up to its await.
SessionCallTool(c) ==
    /\ calls[c].pc = "idle"
    /\ OthersIdle(c)
    /\ Len(history) < MaxSession
    /\ \E tool \in SessionTools : \E args \in SessionToolArgs(tool) :
        /\ Valid(ToolSchema(tool), args)
        /\ LET a == Parse(ToolSchema(tool), args)
           IN  calls' = [calls EXCEPT ![c] =
                   [Idle EXCEPT !.pc = "awaiting", !.kind = "tool", !.name = tool,
                                !.args = args, !.parsed = a,
                                !.requests = <<HandlerCall(tool, a).request>>]]
    /\ UNCHANGED <<store, history, transports>>

\* A direct CasesClient.addCase of the session.
SessionCallClient(c) ==
    /\ calls[c].pc = "idle"
    /\ OthersIdle(c)
    /\ Len(history) < MaxSession
    /\ \E data \in SessionCaseData :
        LET a == [sectionId |-> Num(4)]
        IN  calls' = [calls EXCEPT ![c] =
                [Idle EXCEPT !.pc = "awaiting", !.kind = "client",
                             !.name = "CasesClient.addCase",
                             !.args = a, !.parsed = a, !.data = data,
                             !.requests =
                                 <<ClientMethodCall("CasesClient.addCase", a, data).request>>]]
    /\ UNCHANGED <<store, history, transports>>

\* A server that keeps the case a getCase returned and answers later
\* getCase calls of that case from its copy.
SessionServeCached(c) ==
    /\ calls[c].pc = "awaiting"
    /\ LET up == Upstream(store, calls[c].requests[1])
           kept == {j \in 1..Len(history) :
                       /\ history[j].name = "getCase" /\ calls[c].name = "getCase"
                       /\ history[j].parsed = calls[c].parsed
                       /\ history[j].http.ok}
       IN  /\ calls' = [calls EXCEPT ![c] =
                  IF kept = {} THEN Settled(calls[c], up.http)
                  ELSE Settled(calls[c], history[CHOOSE j \in kept : TRUE].http)]
           /\ store' = up.store
    /\ UNCHANGED <<history, transports>>

\* A transport with one response buffer for all requests: a call resumes
\* with the answer to another call's request when one is in flight.
SessionServeCrossed(c) ==
    /\ calls[c].pc = "awaiting"
    /\ LET others == {d \in Slots \ {c} : calls[d].pc = "awaiting"}
           req == IF others = {} THEN calls[c].requests[1]
                  ELSE calls[CHOOSE d \in others : TRUE].requests[1]
           up == Upstream(store, req)
       IN  /\ calls' = [calls EXCEPT ![c] = Settled(calls[c], up.http)]
           /\ store' = up.store
    /\ UNCHANGED <<history, transports>>

\* A server that remembers a failed call: once a call has failed, every
\* later call is answered with that failure whatever the upstream says.
SessionServeSticky(c) ==
    /\ calls[c].pc = "awaiting"
    /\ LET up == Upstream(store, calls[c].requests[1])
           failed == {j \in 1..Len(history) : ~history[j].http.ok}
       IN  /\ calls' = [calls EXCEPT ![c] =
                  IF failed = {}
                  THEN Settled(calls[c], up.http)
                  ELSE [Settled(calls[c], history[CHOOSE j \in failed : TRUE].http)
                           EXCEPT !.http = up.http]]
           /\ store' = up.store
    /\ UNCHANGED <<history, transports>>

\* The upstream serves the request in flight and answers.
SessionServe(c) ==
    /\ calls[c].pc = "awaiting"
    /\ LET up == Upstream(store, calls[c].requests[1])
       IN  /\ calls' = [calls EXCEPT ![c] = Settled(calls[c], up.http)]
           /\ store' = up.store
    /\ UNCHANGED <<history, transports>>

\* The request in flight never reaches the upstream.
SessionTimeout(c) ==
    /\ calls[c].pc = "awaiting"
    /\ calls' = [calls EXCEPT ![c] = Settled(calls[c], HttpFail(Timeout))]
    /\ UNCHANGED <<store, history, transports>>

\* The caller has its answer; the call joins the history.
SessionReturn(c) ==
    /\ calls[c].pc = "done"
    /\ history' = Append(history, calls[c])
    /\ calls' = [calls EXCEPT ![c] = Idle]
    /\ UNCHANGED <<store, transports>>

SessionNext ==
    \E c \in Slots :
        \/ SessionCallTool(c)
        \/ SessionCallClient(c)
        \/ SessionServe(c)
        \/ SessionTimeout(c)
        \/ SessionReturn(c)

SessionSpec == Init /\ [][SessionNext]_vars

-----------------------------------------------------------------------------
(* Concurrent calls: the protocol may issue a call while others are in      *)
(* flight.  Each handler runs up to its await without interruption, is      *)
(* suspended while its request is in flight, and resumes when the transport *)
(* settles that request.                                                    *)

ConcurrentTools == {"getCase", "addCase", "addResults"}
ConcurrentToolArgs(tool) ==
    CASE tool = "getCase" -> {[caseId |-> Num(id)] : id \in SessionCaseIds}
      [] tool = "addCase" -> {BaseArgs(addTestCaseSchema)}
      [] tool = "addResults" ->
            {[runId |-> Num(5),
              results |-> Items(<<[testId |-> Num(1), statusId |-> Num(1)],
                                  [testId |-> Num(2), comment |-> Str("slow")]>>)],
             [runId |-> Num(6),
              results |-> Items(<<[testId |-> Num(3), statusId |-> Num(5),
                                   defects |-> Str("BUG-1")]>>)]}

\* The calls begun so far: finished ones and those in the slots.
Begun == Len(history) + Cardinality({c \in Slots : calls[c].pc # "idle"})

\* A tool call arrives, whatever the other slots are doing.
ConcurrentCallTool(c) ==
    /\ calls[c].pc = "idle"
    /\ Begun < MaxSession
    /\ \E tool \in ConcurrentTools : \E args \in ConcurrentToolArgs(tool) :
        /\ Valid(ToolSchema(tool), args)
        /\ LET a == Parse(ToolSchema(tool), args)
           IN  calls' = [calls EXCEPT ![c] =
                   [Idle EXCEPT !.pc = "awaiting", !.kind = "tool", !.name = tool,
                                !.args = args, !.parsed = a,
                                !.requests = <<HandlerCall(tool, a).request>>]]
    /\ UNCHANGED <<store, history, transports>>

ConcurrentNext ==
    \E c \in Slots :
        \/ ConcurrentCallTool(c)
        \/ SessionServe(c)
        \/ SessionTimeout(c)
        \/ SessionReturn(c)

\* The transport settles every request: with the upstream's answer, or with
\* a rejection when its timeout runs out.
TransportSettles == \A c \in Slots : WF_vars(SessionServe(c) \/ SessionTimeout(c))

ConcurrentSpec == Init /\ [][ConcurrentNext]_vars /\ TransportSettles

-----------------------------------------------------------------------------
(* Header overrides at run time: setHeader on the aggregate client between  *)
(* tool calls, each request leaving with the default headers of the         *)
(* transport that sends it.                                                 *)

HeaderNames == {"X-Custom-Header", "X-Trace-Id", "Content-Type"}
HeaderValues == {"CustomValue", "trace-2"}
HeaderTools == {"getCase", "getRun", "deleteMilestone"}

\* client.setHeader(name, value) on the aggregate client.
SetHeader ==
    /\ \E name \in HeaderNames : \E value \in HeaderValues :
           transports' = [transports EXCEPT
                             !["aggregate"] = setHeader(@, name, value)]
    /\ UNCHANGED <<calls, store, history>>

\* A tool call whose request is sent by the transport of the resource
\* client the handler calls.
HeaderCallTool(c) ==
    /\ calls[c].pc = "idle"
    /\ OthersIdle(c)
    /\ \E tool \in HeaderTools :
        LET a == Parse(ToolSchema(tool), BaseArgs(ToolSchema(tool)))
        IN  calls' = [calls EXCEPT ![c] =
                [Idle EXCEPT !.pc = "awaiting", !.kind = "tool", !.name = tool,
                             !.args = BaseArgs(ToolSchema(tool)), !.parsed = a,
                             !.requests =
                                 <<HandlerCall(tool, a).request @@
                                   [headers |-> transports[ToolClient(tool)].headers,
                                    baseURL |-> transports[ToolClient(tool)].baseURL]>>]]
    /\ UNCHANGED <<store, history, transports>>

HeaderNext == SetHeader \/ \E c \in Slots : HeaderCallTool(c) \/ Respond(c) \/ Return(c)

HeaderSpec == Init /\ [][HeaderNext]_vars

-----------------------------------------------------------------------------
(* C1: every handler returns a content envelope whatever its client call    *)
(* does, never lets an exception out, and when the client call throws the   *)
(* envelope has success = false and the response is flagged isError.        *)
C1_HandlerAlwaysReturnsEnvelope ==
    \A c \in Slots :
        (Done(c) /\ Handled(c)) =>
            /\ calls[c].result.kind = "returned"
            /\ calls[c].settled.threw =>
                   /\ ~calls[c].result.envelope.success
                   /\ calls[c].result.isError

C1_Witness ==
    \E c \in Slots :
        /\ Done(c)
        /\ ToolCall(c, "addResultForCase")
        /\ calls[c].settled.threw
        /\ calls[c].result.kind = "returned"
        /\ calls[c].result.isError

C2_WrongType(f, v) ==
    /\ v # Undefined
    /\ \/ f.type = "number" /\ v.t # "number"
       \/ f.type = "string" /\ v.t # "string"
       \/ f.type = "numberArray" /\ v.t # "array"
       \/ f.type = "boolean" /\ v.t # "boolean"
       \/ f.type \in {"stepArray", "testResultArray", "caseResultArray",
                       "entryArray", "recordArray"} /\ v.t # "items"

C2_FailsSchema(tool, args) ==
    \/ \E k \in DOMAIN ToolSchema(tool) :
           \/ C2_WrongType(ToolSchema(tool)[k], args[k])
           \/ ~ToolSchema(tool)[k].optional /\ args[k] = Undefined
    \/ tool = "getCases" /\ args.limit.t = "number" /\ args.limit.n < 1

(* C2: a tool call whose arguments fail the schema (a value of the wrong    *)
(* primitive type, a required field missing, a getCases limit below 1)      *)
(* never reaches the Resource Client: no HTTP request is issued for it.     *)
C2_InvalidArgsNeverReachClient ==
    \A c \in Slots :
        (calls[c].kind = "tool" /\ C2_FailsSchema(calls[c].name, calls[c].args)) =>
            /\ calls[c].requests = <<>>
            /\ calls[c].pc = "done"
            /\ calls[c].result.kind = "invalid"

C2_Witness ==
    \E c \in Slots :
        /\ Done(c)
        /\ ToolCall(c, "getCases")
        /\ calls[c].args.limit = Num(0)
        /\ calls[c].args.projectId.t = "number"
        /\ calls[c].args.suiteId.t = "number"
        /\ calls[c].args.offset.t = "number"
        /\ calls[c].requests = <<>>

C3_IllTyped(data) ==
    \/ "title" \in DOMAIN data /\ data["title"].t # "string"
    \/ \E k \in {"type_id", "priority_id", "template_id"} :
           k \in DOMAIN data /\ data[k].t # "number"
    \/ "custom_steps_separated" \in DOMAIN data
           /\ data["custom_steps_separated"].t # "steps"

(* C3: CasesClient.addCase, updateCase and updateCases reject a data record *)
(* whose fields have the wrong types and issue no POST for it.              *)
C3_ClientRejectsInvalidData ==
    \A c \in Slots :
        (/\ calls[c].kind = "client"
         /\ calls[c].name \in {"CasesClient.addCase", "CasesClient.updateCase",
                               "CasesClient.updateCases"}
         /\ C3_IllTyped(calls[c].data)) =>
            /\ \A i \in 1..Len(calls[c].requests) : calls[c].requests[i].method # "POST"
            /\ Done(c) => calls[c].settled.threw

LargeTextFields == {"custom_steps", "custom_expected", "custom_preconds"}

(* C4: no item of the `cases` array of a getCases success envelope has the  *)
(* key custom_steps, custom_expected or custom_preconds, whatever the       *)
(* upstream items hold.                                                     *)
C4_GetCasesOmitsLargeText ==
    \A c \in Slots :
        (Succeeded(c) /\ ToolCall(c, "getCases")) =>
            \A i \in 1..Len(calls[c].result.envelope.data.cases) :
                DOMAIN calls[c].result.envelope.data.cases[i] \cap LargeTextFields = {}

C4_Witness ==
    \E c \in Slots :
        /\ Succeeded(c)
        /\ ToolCall(c, "getCases")
        /\ Len(calls[c].result.envelope.data.cases) = Len(calls[c].http.data.cases)
        /\ \E i \in 1..Len(calls[c].http.data.cases) :
               LargeTextFields \subseteq DOMAIN calls[c].http.data.cases[i]

(* C5: the getCase tool returns under data.case exactly the record the      *)
(* upstream returned: same keys, same values, the large text fields         *)
(* included whenever the upstream record has them.                          *)
C5_GetCaseReturnsFullRecord ==
    \A c \in Slots :
        (Succeeded(c) /\ ToolCall(c, "getCase")) =>
            /\ DOMAIN calls[c].result.envelope.data.case = DOMAIN calls[c].http.data
            /\ \A k \in DOMAIN calls[c].http.data :
                   calls[c].result.envelope.data.case[k] = calls[c].http.data[k]

C5_Witness ==
    \E c \in Slots :
        /\ Succeeded(c)
        /\ ToolCall(c, "getCase")
        /\ LargeTextFields \subseteq DOMAIN calls[c].http.data
        /\ LargeTextFields \subseteq DOMAIN calls[c].result.envelope.data.case

C6_CarriesNextLink(links) == "next" \in DOMAIN links /\ links["next"] # Null

(* C6: in the getCases success envelope, pagination.hasMore is true exactly *)
(* when the upstream response carries a next-page link (false when the link *)
(* is null or missing), and pagination.limit and pagination.offset are the  *)
(* limit and offset sent upstream.                                          *)
C6_HasMoreIffNextLink ==
    \A c \in Slots :
        (Succeeded(c) /\ ToolCall(c, "getCases")) =>
            LET pagination == calls[c].result.envelope.data.pagination
                sent == calls[c].requests[1].params
            IN  /\ pagination.hasMore = Bool(C6_CarriesNextLink(calls[c].http.data.links))
                /\ pagination.limit = sent.limit
                /\ pagination.offset = sent.offset

C7_Expected(v, d) == IF v = Undefined THEN Num(d) ELSE v

(* C7: getCases sends limit = 50 when limit is omitted and offset = 0 when  *)
(* offset is omitted, forwards supplied values unchanged, and reports the   *)
(* same two values in the envelope's pagination block.                      *)
C7_GetCasesDefaults ==
    \A c \in Slots :
        (ToolCall(c, "getCases") /\ Handled(c)) =>
            /\ Len(calls[c].requests) = 1
            /\ calls[c].requests[1].params.limit = C7_Expected(calls[c].args.limit, 50)
            /\ calls[c].requests[1].params.offset = C7_Expected(calls[c].args.offset, 0)
            /\ Succeeded(c) =>
                   LET pagination == calls[c].result.envelope.data.pagination
                   IN  /\ pagination.limit = C7_Expected(calls[c].args.limit, 50)
                       /\ pagination.offset = C7_Expected(calls[c].args.offset, 0)

C7_Witness ==
    \E c \in Slots :
        /\ Succeeded(c)
        /\ ToolCall(c, "getCases")
        /\ calls[c].args.limit = Undefined
        /\ calls[c].args.offset = Undefined
        /\ calls[c].requests[1].params.limit = Num(50)
        /\ calls[c].result.envelope.data.pagination.offset = Num(0)

(* C8: when the upstream call behind getCase fails, the tool returns an     *)
(* error envelope with success = false whose message contains the decimal   *)
(* caseId, and no exception leaves the handler.                             *)
C8_GetCaseFailureNamesCase ==
    \A c \in Slots :
        (Done(c) /\ ToolCall(c, "getCase") /\ Handled(c) /\ ~calls[c].http.ok) =>
            /\ calls[c].result.kind = "returned"
            /\ ~calls[c].result.envelope.success
            /\ Contains(calls[c].result.envelope.message, Decimal(calls[c].args.caseId.n))

C8_Witness ==
    \E c \in Slots :
        /\ Done(c)
        /\ ToolCall(c, "getCase")
        /\ calls[c].args.caseId = Num(999)
        /\ calls[c].http.error.status = 404
        /\ calls[c].result.kind = "returned"
        /\ Contains(calls[c].result.envelope.message, "999")

(* C9: CasesClient.updateCases with a supplied suiteId issues exactly one   *)
(* POST to /api/v2/update_cases/{projectId}?suite_id={suiteId} whose body   *)
(* is the fields of data plus case_ids, case_ids being the caseIds          *)
(* argument.                                                                *)
C9_UpdateCasesRequest ==
    \A c \in Slots :
        (/\ calls[c].kind = "client"
         /\ calls[c].name = "CasesClient.updateCases"
         /\ calls[c].args.suiteId # Null) =>
            /\ Len(calls[c].requests) = 1
            /\ calls[c].requests[1].method = "POST"
            /\ calls[c].requests[1].url =
                   "/api/v2/update_cases/" \o Decimal(calls[c].args.projectId.n)
                       \o "?suite_id=" \o Decimal(calls[c].args.suiteId.n)
            /\ DOMAIN calls[c].requests[1].body = DOMAIN calls[c].data \cup {"case_ids"}
            /\ calls[c].requests[1].body["case_ids"] = calls[c].args.caseIds
            /\ \A k \in DOMAIN calls[c].data \ {"case_ids"} :
                   calls[c].requests[1].body[k] = calls[c].data[k]

C10_Verb(method) ==
    IF method = "CasesClient.updateCases" THEN "update_cases" ELSE "delete_cases"

(* C10: updateCases and deleteCases carry a suite_id query parameter        *)
(* exactly when a suite identifier was supplied: no query with the suite    *)
(* absent, ?suite_id={suiteId} with any supplied suite identifier.          *)
C10_SuiteQueryIffSupplied ==
    \A c \in Slots :
        (/\ calls[c].kind = "client"
         /\ calls[c].name \in {"CasesClient.updateCases", "CasesClient.deleteCases"}) =>
            LET path == "/api/v2/" \o C10_Verb(calls[c].name) \o "/"
                            \o Decimal(calls[c].args.projectId.n)
            IN  /\ Len(calls[c].requests) = 1
                /\ calls[c].requests[1].method = "POST"
                /\ calls[c].requests[1].url =
                       IF calls[c].args.suiteId = Null
                       THEN path
                       ELSE path \o "?suite_id=" \o Decimal(calls[c].args.suiteId.n)

-----------------------------------------------------------------------------
\* The wire name of each result field of the addResultForCase tool.
C11_WireName ==
    [statusId |-> "status_id", comment |-> "comment", version |-> "version",
     elapsed |-> "elapsed", defects |-> "defects", assignedtoId |-> "assignedto_id"]

\* The result fields a caller supplied (empty string, null and undefined
\* count as absent), under their wire names.
C11_SuppliedBody(args) ==
    LET given == {k \in DOMAIN C11_WireName : args[k] \notin {Undefined, Null, Str("")}}
    IN  [w \in {C11_WireName[k] : k \in given} |->
            args[CHOOSE k \in given : C11_WireName[k] = w]]

(* C11: addResultForCase issues exactly one POST to                         *)
(* /api/v2/add_result_for_case/{runId}/{caseId} whose body holds the        *)
(* supplied result fields under their wire names and nothing else, and on   *)
(* upstream success data.result is the upstream result record unchanged.    *)
C11_AddResultForCaseRequest ==
    \A c \in Slots :
        (ToolCall(c, "addResultForCase") /\ Handled(c)) =>
            /\ Len(calls[c].requests) = 1
            /\ calls[c].requests[1].method = "POST"
            /\ calls[c].requests[1].url =
                   "/api/v2/add_result_for_case/" \o Decimal(calls[c].args.runId.n)
                       \o "/" \o Decimal(calls[c].args.caseId.n)
            /\ calls[c].requests[1].body = C11_SuppliedBody(calls[c].args)
            /\ Succeeded(c) => calls[c].result.envelope.data.result = calls[c].http.data

-----------------------------------------------------------------------------
\* Two consecutive finished calls are deleteCase tool calls of the same case.
C12_SameDelete(first, second) ==
    /\ first.kind = "tool" /\ first.name = "deleteCase"
    /\ second.kind = "tool" /\ second.name = "deleteCase"
    /\ first.args.caseId = second.args.caseId

(* C12: in the sequence deleteCase(id); deleteCase(id) against an upstream  *)
(* that rejects the deletion of a case it no longer holds, the first call   *)
(* returns a success envelope and the second an error envelope (success =   *)
(* false, isError = true); neither call throws, and the server takes        *)
(* further calls afterwards.                                                *)
C12_DeleteTwice ==
    \A i \in 1..(Len(history) - 1) :
        (C12_SameDelete(history[i], history[i + 1]) /\ history[i].http.ok) =>
            /\ history[i].result.kind = "returned"
            /\ history[i].result.envelope.success
            /\ ~history[i].result.isError
            /\ history[i + 1].result.kind = "returned"
            /\ ~history[i + 1].result.envelope.success
            /\ history[i + 1].result.isError
            /\ (Len(history) < MaxSession /\ \A c \in Slots : calls[c].pc = "idle") =>
                   ENABLED SessionCallTool(1)

C12_Witness ==
    /\ Len(history) = 3
    /\ C12_SameDelete(history[1], history[2])
    /\ history[1].args.caseId = Num(999)
    /\ history[1].result.envelope.success
    /\ history[2].http.error.status = 400
    /\ history[2].result.isError
    /\ history[3].name = "addCase"
    /\ history[3].result.kind = "returned"
    /\ history[3].result.envelope.success

-----------------------------------------------------------------------------
\* The data record of a finished addCase: the `data` argument of a direct
\* CasesClient.addCase, the `data` object the tool's handler built.
C13_SubmittedData(h) ==
    IF h.kind = "client" THEN h.data ELSE h.requests[1].body

\* Finished call i created a case and finished call j read it back.
C13_AddThenGet(added, read) ==
    /\ added.name \in {"addCase", "CasesClient.addCase"}
    /\ added.http.ok
    /\ read.kind = "tool" /\ read.name = "getCase"
    /\ read.args.caseId = added.http.data.id
    /\ read.result.kind = "returned"
    /\ read.result.envelope.success

(* C13: round trip.  After addCase(sectionId, data) succeeds against an     *)
(* upstream that stores what it is sent, getCase of the created id returns  *)
(* a record in which every field submitted in data has the submitted value, *)
(* the server-assigned fields (id, section_id, created_on) excluded.        *)
C13_AddCaseGetCaseRoundTrip ==
    \A i \in 1..Len(history) : \A j \in (i + 1)..Len(history) :
        C13_AddThenGet(history[i], history[j]) =>
            LET data == C13_SubmittedData(history[i])
                got == history[j].result.envelope.data.case
            IN  \A k \in DOMAIN data \ ServerAssigned :
                    k \in DOMAIN got /\ got[k] = data[k]

C13_Witness ==
    /\ Len(history) >= 2
    /\ C13_AddThenGet(history[1], history[2])
    /\ history[1].kind = "client"
    /\ history[1].data = [title |-> Str("X"), custom_steps |-> Str("do"), id |-> Num(5)]
    /\ history[2].args.caseId = Num(1000)
    /\ history[2].result.envelope.data.case.custom_steps = Str("do")
    /\ history[2].result.envelope.data.case.id = Num(1000)

-----------------------------------------------------------------------------
\* The key under which each data-returning tool puts what its Resource
\* Client method returned.
C14_ResourceKey ==
    [getCase |-> "case", addCase |-> "case", updateCase |-> "case",
     getPlans |-> "plans", addResultForCase |-> "result", getRun |-> "run",
     getMilestone |-> "milestone", getCaseHistory |-> "history",
     copyToSection |-> "result", moveToSection |-> "result",
     addRun |-> "run", updateRun |-> "run", addMilestone |-> "milestone",
     updateMilestone |-> "milestone", addSharedStep |-> "sharedStep",
     updateSharedStep |-> "sharedStep", addResults |-> "results",
     addResultsForCases |-> "results", addPlan |-> "plan",
     addPlanEntry |-> "entry", addRunToPlanEntry |-> "run", getRuns |-> "runs"]

-----------------------------------------------------------------------------
\* The calls whose Resource Client method returns data (the others are void).
C15_ReturnsData(call) ==
    \/ call.kind = "tool"
           /\ call.name \notin {"deleteCase", "updateCases", "deleteMilestone"}
    \/ call.kind = "client"
           /\ call.name \in {"CasesClient.addCase", "CasesClient.updateCase",
                             "CasesClient.getCases", "PlansClient.addPlan",
                             "PlansClient.addPlanEntry",
                             "PlansClient.addRunToPlanEntry"}

\* The filters a getCases call hands to CasesClient.getCases.
C15_Filters(call) ==
    IF call.kind = "client" THEN call.data ELSE GetCasesFilters(call.parsed)

-----------------------------------------------------------------------------
\* The identifier arguments of the Resource Client method behind a call
\* (those that go into the URL path).
C16_IdArgs(call) ==
    CASE call.name \in {"getCase", "updateCase", "deleteCase", "getCaseHistory",
                        "CasesClient.updateCase"} -> {"caseId"}
      [] call.name \in {"getCases", "updateCases", "getPlans", "CasesClient.getCases",
                        "CasesClient.updateCases", "CasesClient.deleteCases",
                        "addRun", "addMilestone", "addSharedStep", "addPlan", "getRuns",
                        "PlansClient.addPlan"} ->
            {"projectId"}
      [] call.name \in {"addPlanEntry", "PlansClient.addPlanEntry"} -> {"planId"}
      [] call.name \in {"addRunToPlanEntry", "PlansClient.addRunToPlanEntry"} ->
            {"planId", "entryId"}
      [] call.name \in {"updateRun", "addResults", "addResultsForCases"} -> {"runId"}
      [] call.name = "updateMilestone" -> {"milestoneId"}
      [] call.name = "updateSharedStep" -> {"sharedStepId"}
      [] call.name \in {"addCase", "copyToSection", "moveToSection",
                        "CasesClient.addCase"} -> {"sectionId"}
      [] call.name = "addResultForCase" -> {"runId", "caseId"}
      [] call.name = "getRun" -> {"runId"}
      [] call.name \in {"getMilestone", "deleteMilestone"} -> {"milestoneId"}

\* The failed client call rejected with a normalized error that names the
\* operation and carries the cause.
C16_Normalized(call) ==
    /\ call.settled.threw
    /\ ~call.settled.hasValue
    /\ call.settled.error.kind = "ApiError"
    /\ call.settled.error # call.http.error
    /\ HasPrefix(call.settled.error.message, "Failed to ")
    /\ call.settled.error.cause.message = call.http.error.message

C16_NamesIdentifiers(call) ==
    \A k \in C16_IdArgs(call) :
        Contains(call.settled.error.message,
                 IF call.parsed[k].t = "string" THEN call.parsed[k].s
                 ELSE Decimal(call.parsed[k].n))

\* The methods whose failure message names the operation only.
C16_OperationOnly ==
    {"updateCases", "getCaseHistory", "CasesClient.updateCases",
     "CasesClient.deleteCases"}

(* C16 as stated: a Resource Client method whose HTTP request fails rejects *)
(* with a normalized error that names the attempted operation, includes the *)
(* identifier argument of every method that has one, and conveys the        *)
(* cause's message.                                                         *)
C16_FailureNamesIdentifier ==
    \A c \in Slots :
        (Done(c) /\ calls[c].requests # <<>> /\ ~calls[c].http.ok) =>
            C16_Normalized(calls[c]) /\ C16_NamesIdentifiers(calls[c])

(* C16 amended: a Resource Client method whose HTTP request fails rejects,  *)
(* never resolving and never passing on the raw transport error, with a     *)
(* normalized error that names the attempted operation and conveys the      *)
(* cause's message; the message includes the identifier argument except for *)
(* updateCases, deleteCases and getCaseHistory, which name the operation    *)
(* only.                                                                    *)
C16_FailureNormalized ==
    \A c \in Slots :
        (Done(c) /\ calls[c].requests # <<>> /\ ~calls[c].http.ok) =>
            /\ C16_Normalized(calls[c])
            /\ calls[c].name \notin C16_OperationOnly => C16_NamesIdentifiers(calls[c])
            /\ calls[c].name \in C16_OperationOnly =>
                   calls[c].settled.error.message \in
                       {"Failed to update test cases", "Failed to delete test cases",
                        "Failed to get test case history"}

C16_Witness ==
    \E c \in Slots :
        /\ Done(c)
        /\ calls[c].kind = "client"
        /\ calls[c].name = "CasesClient.updateCases"
        /\ calls[c].http.error.status = 404
        /\ calls[c].settled.threw
        /\ calls[c].settled.error.message = "Failed to update test cases"
        /\ calls[c].settled.error.cause.message = "Request failed with status code 404"

-----------------------------------------------------------------------------
\* The Resource Client method behind a call is a read method (get*).
C17_IsRead(name) == HasPrefix(name, "get") \/ HasPrefix(name, "CasesClient.get")

\* One request, GET for a read method and POST for any other.
C17_OneRequestWithVerb(call) ==
    /\ Len(call.requests) = 1
    /\ call.requests[1].method \in {"GET", "POST"}
    /\ C17_IsRead(call.name) <=> call.requests[1].method = "GET"
    /\ ~C17_IsRead(call.name) <=> call.requests[1].method = "POST"

\* The delete of one entity: an empty-object body to delete_<resource>/{id}.
C17_SingleDelete(call) ==
    /\ call.name = "deleteCase" =>
           /\ call.requests[1].url = "/api/v2/delete_case/" \o Decimal(call.parsed.caseId.n)
           /\ call.requests[1].body = EmptyObj
    /\ call.name = "deleteMilestone" =>
           /\ call.requests[1].url =
                  "/api/v2/delete_milestone/" \o Decimal(call.parsed.milestoneId.n)
           /\ call.requests[1].body = EmptyObj

(* C17 as stated: every Resource Client method issues exactly one HTTP      *)
(* request; get* methods use GET, create, update, delete, copy and move     *)
(* methods use POST, none uses PUT, PATCH or DELETE; every delete method    *)
(* POSTs an empty-object body to /api/v2/delete_<resource>/{id}.            *)
C17_DeletePostsEmptyBody ==
    \A c \in Slots :
        calls[c].requests # <<>> =>
            /\ C17_OneRequestWithVerb(calls[c])
            /\ C17_SingleDelete(calls[c])
            /\ calls[c].name = "CasesClient.deleteCases" =>
                   /\ calls[c].requests[1].url =
                          "/api/v2/delete_cases/" \o Decimal(calls[c].parsed.projectId.n)
                   /\ calls[c].requests[1].body = EmptyObj

(* C17 amended: every Resource Client method issues exactly one HTTP        *)
(* request; get* methods use GET, all others POST, none uses PUT, PATCH or  *)
(* DELETE; the delete of one entity POSTs an empty-object body to           *)
(* /api/v2/delete_<resource>/{id}, while deleteCases POSTs {case_ids} to    *)
(* /api/v2/delete_cases/{projectId}, with ?suite_id= for a truthy suiteId.  *)
C17_OneRequestGetOrPost ==
    \A c \in Slots :
        calls[c].requests # <<>> =>
            /\ C17_OneRequestWithVerb(calls[c])
            /\ C17_SingleDelete(calls[c])
            /\ calls[c].name = "CasesClient.deleteCases" =>
                   /\ HasPrefix(calls[c].requests[1].url,
                                "/api/v2/delete_cases/" \o Decimal(calls[c].parsed.projectId.n))
                   /\ calls[c].requests[1].body = [case_ids |-> calls[c].parsed.caseIds]

C17_Witness ==
    \E c \in Slots :
        /\ Done(c)
        /\ ToolCall(c, "deleteMilestone")
        /\ calls[c].requests =
               <<[method |-> "POST", url |-> "/api/v2/delete_milestone/2",
                  hasParams |-> FALSE, params |-> EmptyObj, body |-> EmptyObj]>>
        /\ Succeeded(c)

-----------------------------------------------------------------------------
\* The values that count as an absent optional argument.
C18_Absent == {Undefined, Null, Str("")}

\* The tools that forward optional arguments in a POST body.
C18_WriteTools ==
    {"addCase", "updateCase", "updateCases", "addResultForCase", "addRun", "updateRun",
     "addMilestone", "updateMilestone", "addSharedStep", "updateSharedStep"}

\* The keys under which an argument can travel: its own name or its wire name.
C18_WireNames ==
    [suiteId |-> "suite_id", milestoneId |-> "milestone_id",
     assignedtoId |-> "assignedto_id", includeAll |-> "include_all",
     caseIds |-> "case_ids", configIds |-> "config_ids", dueOn |-> "due_on",
     typeId |-> "type_id", priorityId |-> "priority_id", templateId |-> "template_id",
     statusId |-> "status_id", additionalInfo |-> "additional_info"]
C18_Keys(k) == {k} \cup (IF k \in DOMAIN C18_WireNames THEN {C18_WireNames[k]} ELSE {})

\* No absent optional argument of the call has a key in the body.
C18_ArgumentsStripped(tool, args, body) ==
    \A k \in DOMAIN args :
        (ToolSchema(tool)[k].optional /\ args[k] \in C18_Absent) =>
            C18_Keys(k) \cap DOMAIN body = {}

\* No absent optional field of a step has a key in the step that was sent.
C18_StepsStripped(args, body) ==
    ("steps" \in DOMAIN args /\ args.steps.t = "items"
        /\ "custom_steps_separated" \in DOMAIN body) =>
        \A i \in 1..Len(args.steps.items) :
            \A f \in {"expected", "additionalInfo", "refs"} :
                Get(args.steps.items[i], f) \in C18_Absent =>
                    C18_Keys(f) \cap DOMAIN body.custom_steps_separated.items[i] = {}

(* C18: an optional argument supplied as the empty string, null or          *)
(* undefined never appears in the payload forwarded upstream, for every     *)
(* write tool including addRun, updateRun, addMilestone, updateMilestone    *)
(* and the optional fields of each step of addSharedStep, updateSharedStep. *)
C18_AbsentOptionalsStripped ==
    \A c \in Slots :
        (calls[c].kind = "tool" /\ calls[c].name \in C18_WriteTools
            /\ Len(calls[c].requests) > 0) =>
            /\ C18_ArgumentsStripped(calls[c].name, calls[c].args,
                                     calls[c].requests[1].body)
            /\ C18_StepsStripped(calls[c].args, calls[c].requests[1].body)

-----------------------------------------------------------------------------
\* The argument key and the wire key of the identifier each batch tool uses.
C19_IdKeys ==
    [addResults |-> [arg |-> "testId", wire |-> "test_id"],
     addResultsForCases |-> [arg |-> "caseId", wire |-> "case_id"]]

\* Element `sent` carries the identifier of `input`, and each further key of
\* it is the wire name of a field `input` supplied, with the value supplied.
C19_OwnFieldsOnly(tool, input, sent) ==
    /\ C19_IdKeys[tool].wire \in DOMAIN sent
    /\ sent[C19_IdKeys[tool].wire] = input[C19_IdKeys[tool].arg]
    /\ \A w \in DOMAIN sent \ {C19_IdKeys[tool].wire} :
          \E k \in DOMAIN C11_WireName :
              /\ C11_WireName[k] = w
              /\ Get(input, k) \notin {Undefined, Null, Str("")}
              /\ sent[w] = input[k]

\* A batch tool call that got past validation.
C19_Batch(c) ==
    /\ calls[c].kind = "tool"
    /\ calls[c].name \in DOMAIN C19_IdKeys
    /\ calls[c].result.kind # "invalid"

(* C19: addResults and addResultsForCases make exactly one client call;     *)
(* payload.results has the length and order of the input array, element i  *)
(* carries input i's identifier (test_id resp. case_id) and only input i's  *)
(* own supplied fields under their wire names.                              *)
C19_BatchKeepsItemsApart ==
    \A c \in Slots :
        C19_Batch(c) =>
            LET input == calls[c].args.results.items
                sent == calls[c].requests[1].body.results.items
            IN  /\ Len(calls[c].requests) = 1
                /\ Len(sent) = Len(input)
                /\ \A i \in 1..Len(input) :
                      C19_OwnFieldsOnly(calls[c].name, input[i], sent[i])

\* A batch call has sent three items, in an order that is not the order of
\* the identifiers, the last of them with no optional field, and succeeded.
C19_Witness ==
    \E c \in Slots :
        /\ C19_Batch(c) /\ Succeeded(c)
        /\ Len(calls[c].args.results.items) = 3
        /\ DOMAIN calls[c].requests[1].body.results.items[1] =
               {C19_IdKeys[calls[c].name].wire, "status_id", "defects"}
        /\ calls[c].requests[1].body.results.items[1][C19_IdKeys[calls[c].name].wire]
               = Num(2)
        /\ DOMAIN calls[c].requests[1].body.results.items[3] =
               {C19_IdKeys[calls[c].name].wire}

-----------------------------------------------------------------------------
\* The wire name of each field of the data a PlansClient add method takes.
C20_WireName ==
    [name |-> "name", description |-> "description", milestoneId |-> "milestone_id",
     entries |-> "entries", suiteId |-> "suite_id", assignedtoId |-> "assignedto_id",
     includeAll |-> "include_all", caseIds |-> "case_ids", configIds |-> "config_ids",
     refs |-> "refs", runs |-> "runs"]

\* The required field and the path of each method.
C20_Required ==
    [PlansClient_addPlan |-> "name", PlansClient_addPlanEntry |-> "suiteId",
     PlansClient_addRunToPlanEntry |-> "configIds"]
C20_Method(call) ==
    CASE call.name = "PlansClient.addPlan" -> "PlansClient_addPlan"
      [] call.name = "PlansClient.addPlanEntry" -> "PlansClient_addPlanEntry"
      [] call.name = "PlansClient.addRunToPlanEntry" -> "PlansClient_addRunToPlanEntry"
C20_Path(call) ==
    CASE call.name = "PlansClient.addPlan" ->
            "/api/v2/add_plan/" \o Decimal(call.args.projectId.n)
      [] call.name = "PlansClient.addPlanEntry" ->
            "/api/v2/add_plan_entry/" \o Decimal(call.args.planId.n)
      [] call.name = "PlansClient.addRunToPlanEntry" ->
            "/api/v2/add_run_to_plan_entry/" \o Decimal(call.args.planId.n)
                \o "/" \o call.args.entryId.s

\* The required field and every supplied optional field (empty string, null
\* and undefined count as absent), under their wire names.
C20_ExpectedBody(call) ==
    LET given == {k \in DOMAIN call.data :
                     \/ k = C20_Required[C20_Method(call)]
                     \/ call.data[k] \notin {Undefined, Null, Str("")}}
    IN  [w \in {C20_WireName[k] : k \in given} |->
            call.data[CHOOSE k \in given : C20_WireName[k] = w]]

C20_PlanCall(c) ==
    /\ calls[c].kind = "client"
    /\ calls[c].name \in {"PlansClient.addPlan", "PlansClient.addPlanEntry",
                          "PlansClient.addRunToPlanEntry"}

(* C20: PlansClient.addPlan, addPlanEntry and addRunToPlanEntry issue a     *)
(* single POST to /api/v2/add_plan/{projectId}, /api/v2/add_plan_entry/     *)
(* {planId} and /api/v2/add_run_to_plan_entry/{planId}/{entryId}; the body  *)
(* holds the required wire field (name, suite_id, config_ids) plus exactly  *)
(* the optional fields that were supplied, in snake_case, and a supplied    *)
(* includeAll=false is forwarded as include_all=false.                      *)
C20_PlanBodyIsSuppliedFields ==
    \A c \in Slots :
        C20_PlanCall(c) =>
            /\ Len(calls[c].requests) = 1
            /\ calls[c].requests[1].method = "POST"
            /\ calls[c].requests[1].url = C20_Path(calls[c])
            /\ calls[c].requests[1].body = C20_ExpectedBody(calls[c])
            /\ Get(calls[c].data, "includeAll") = Bool(FALSE) =>
                   Get(calls[c].requests[1].body, "include_all") = Bool(FALSE)

-----------------------------------------------------------------------------
(* C21: no retry. A tool call whose upstream HTTP request fails has issued  *)
(* exactly one upstream request in total, and it returns the error envelope *)
(* without any further attempt.                                             *)
C21_NoRetry ==
    \A c \in Slots :
        /\ (calls[c].kind = "tool" /\ calls[c].pc = "awaiting") =>
               Len(calls[c].requests) = 1
        /\ (Done(c) /\ Handled(c) /\ ~calls[c].http.ok) =>
               /\ Len(calls[c].requests) = 1
               /\ calls[c].result.kind = "returned"
               /\ calls[c].result.isError
               /\ ~calls[c].result.envelope.success
               /\ calls[c].result.envelope.error.cause = calls[c].http.error

\* A getCase call has failed on a timeout and holds its error envelope.
C21_Witness ==
    \E c \in Slots :
        /\ Done(c)
        /\ ToolCall(c, "getCase")
        /\ ~calls[c].http.ok
        /\ calls[c].http.error.status = 0
        /\ Len(calls[c].requests) = 1
        /\ calls[c].result.isError

-----------------------------------------------------------------------------
\* The envelope a tool call gets from its own arguments and the upstream's
\* answer to its own request, with nothing else taken into account.
C22_OwnResult(call, http) ==
    HandlerFinish(call.name, call.parsed,
                  ClientSettle(HandlerCall(call.name, call.parsed), http))

\* Finished call k of the session is a tool call made after a call that
\* ended in an error envelope.
C22_AfterFailure(k) ==
    /\ history[k].kind = "tool"
    /\ \E j \in 1..(k - 1) : history[j].kind = "tool" /\ history[j].result.isError

-----------------------------------------------------------------------------
\* The identifiers in a successful answer are those of the call's own
\* request: the case asked for, the tests reported on, in order.
C23_OwnIdentifiers(call) ==
    /\ call.name = "getCase" => Get(call.http.data, "id") = call.parsed.caseId
    /\ call.name = "addResults" =>
           /\ "items" \in DOMAIN call.http.data
           /\ Len(call.http.data.items) = Len(call.parsed.results.items)
           /\ \A i \in 1..Len(call.http.data.items) :
                  call.http.data.items[i].test_id = call.parsed.results.items[i].testId

\* A finished call holds the request and the envelope its own arguments and
\* its own upstream response determine.
C23_OwnEnvelope ==
    \A c \in Slots :
        (Done(c) /\ calls[c].kind = "tool") =>
            /\ calls[c].requests =
                   <<HandlerCall(calls[c].name, calls[c].parsed).request>>
            /\ calls[c].result = C22_OwnResult(calls[c], calls[c].http)
            /\ calls[c].http.ok => C23_OwnIdentifiers(calls[c])

\* A step of one call leaves every other call as it was.
C23_OnlyOwnSlot ==
    \A c \in Slots :
        calls'[c] # calls[c] => \A d \in Slots \ {c} : calls'[d] = calls[d]

-----------------------------------------------------------------------------
\* Every getCase call, in flight or finished, has its own single GET.
C24_FreshGet ==
    /\ \A c \in Slots :
          (calls[c].kind = "tool" /\ calls[c].name = "getCase") =>
              /\ Len(calls[c].requests) = 1
              /\ calls[c].requests[1].method = "GET"
    /\ \A k \in 1..Len(history) :
          (history[k].kind = "tool" /\ history[k].name = "getCase") =>
              /\ Len(history[k].requests) = 1
              /\ history[k].requests[1].method = "GET"

\* The step in which a getCase gets the upstream's answer: the envelope
\* holds the record the upstream holds at that moment, and is an error
\* envelope when the upstream holds none.
C24_ReadsCurrentRecord ==
    \A c \in Slots :
        (/\ calls[c].pc = "awaiting" /\ calls[c].name = "getCase"
         /\ calls'[c].pc = "done"
         /\ calls'[c].http.ok \/ calls'[c].http.error.status # 0) =>
            IF calls[c].parsed.caseId.n \in DOMAIN store.cases
            THEN /\ calls'[c].result.envelope.success
                 /\ calls'[c].result.envelope.data.case =
                        store.cases[calls[c].parsed.caseId.n]
            ELSE calls'[c].result.isError

(* C24: no caching. Every getCase issues a fresh upstream GET, so two       *)
(* consecutive getCase(id) calls issue two requests, and each returns the   *)
(* record as the upstream holds it at the time of that call: a getCase      *)
(* after a successful updateCase or deleteCase never returns an earlier     *)
(* copy.                                                                    *)
C24_NoCaching == []C24_FreshGet /\ [][C24_ReadsCurrentRecord]_vars

\* getCase, a successful updateCase of the same case, getCase again: the
\* second read returned the updated title, the first the original one.
C24_Witness ==
    /\ Len(history) = 3
    /\ history[1].name = "getCase" /\ history[1].result.envelope.success
    /\ history[2].name = "updateCase" /\ history[2].result.envelope.success
    /\ history[2].parsed.caseId = history[1].parsed.caseId
    /\ history[3].name = "getCase" /\ history[3].result.envelope.success
    /\ history[3].parsed.caseId = history[1].parsed.caseId
    /\ history[1].result.envelope.data.case.title = Str("T")
    /\ history[3].result.envelope.data.case.title = Str("x-title")

-----------------------------------------------------------------------------
\* The tools whose completion is followed: getCases, with its loop over the
\* returned page, and getCase.
LiveTools == {"getCases", "getCase"}

LiveCallTool(c) ==
    /\ calls[c].pc = "idle"
    /\ OthersIdle(c)
    /\ \E tool \in LiveTools : \E args \in ToolArgs[tool] :
        IF Valid(ToolSchema(tool), args)
        THEN LET a == Parse(ToolSchema(tool), args)
             IN  calls' = [calls EXCEPT ![c] =
                     [Idle EXCEPT !.pc = "awaiting", !.kind = "tool", !.name = tool,
                                  !.args = args, !.parsed = a,
                                  !.requests = <<HandlerCall(tool, a).request>>]]
        ELSE calls' = [calls EXCEPT ![c] =
                     [Idle EXCEPT !.pc = "done", !.kind = "tool", !.name = tool,
                                  !.args = args,
                                  !.result = [NoResult EXCEPT !.kind = "invalid",
                                                              !.isError = TRUE]]]
    /\ UNCHANGED <<store, history, transports>>

LiveNext == \E c \in Slots : LiveCallTool(c) \/ Respond(c) \/ Return(c)

\* The transport resolves or rejects every request in flight (its fixed
\* timeout guarantees the rejection).
LiveSpec == Init /\ [][LiveNext]_vars /\ \A c \in Slots : WF_vars(Respond(c))

\* A handler in progress or finished has made at most one upstream call.
C25_BoundedCalls ==
    \A c \in Slots : calls[c].kind = "tool" => Len(calls[c].requests) <= 1

\* A finished call keeps the one envelope it returned until the slot is
\* freed.
C25_OneEnvelope ==
    \A c \in Slots : Done(c) => (calls'[c] = calls[c] \/ calls'[c] = Idle)

(* C25: every tool call eventually completes with exactly one envelope,     *)
(* success or error, provided the transport eventually resolves or rejects  *)
(* each request; a handler performs a bounded number of upstream calls and  *)
(* never loops waiting.                                                     *)
C25_EveryCallCompletes ==
    /\ \A c \in Slots :
          (calls[c].kind = "tool" /\ calls[c].pc = "awaiting")
              ~> (Done(c) /\ calls[c].result.kind = "returned")
    /\ []C25_BoundedCalls
    /\ [][C25_OneEnvelope]_vars

\* A getCases call has completed with an error envelope after a timeout.
C25_Witness ==
    \E c \in Slots :
        /\ Done(c)
        /\ ToolCall(c, "getCases")
        /\ calls[c].http.error.status = 0 /\ ~calls[c].http.ok
        /\ calls[c].result.kind = "returned"
        /\ calls[c].result.isError

-----------------------------------------------------------------------------
\* A step that changes the aggregate client's transport sets one default
\* header and leaves the other headers, the base URL, the credentials and
\* the timeout as they were; no other step changes a transport.
C26_SetsOneHeader ==
    /\ transports' # transports =>
           \E name \in HeaderNames : \E value \in HeaderValues :
               transports' = [transports EXCEPT
                                 !["aggregate"].headers = Put(@, name, value)]
    /\ calls' # calls => transports' = transports

\* A request that leaves carries every default header of the aggregate
\* client with the value last set.
C26_RequestsCarryHeaders ==
    \A c \in Slots :
        (calls[c].pc = "idle" /\ calls'[c].pc = "awaiting") =>
            \A name \in DOMAIN transports["aggregate"].headers :
                /\ name \in DOMAIN calls'[c].requests[1].headers
                /\ calls'[c].requests[1].headers[name] =
                       transports["aggregate"].headers[name]

(* C26: setHeader(name, value) on the aggregate client sets the default     *)
(* request header name to value, leaves every other default header and the *)
(* base URL, credentials and timeout unchanged, and the new value stays in  *)
(* effect for all later requests until another setHeader on the same name   *)
(* overwrites it.                                                           *)
C26_SetHeaderStaysInEffect == [][C26_SetsOneHeader /\ C26_RequestsCarryHeaders]_vars

-----------------------------------------------------------------------------
\* The wire name of each optional argument of the case write tools.
C27_WireName ==
    [typeId |-> "type_id", priorityId |-> "priority_id", estimate |-> "estimate",
     milestoneId |-> "milestone_id", refs |-> "refs",
     customPrerequisites |-> "custom_preconds", customSteps |-> "custom_steps",
     customExpected |-> "custom_expected"]

\* Argument k was supplied with a value.
C27_Supplied(args, k) == args[k] \notin {Undefined, Null, Str("")}

\* The body holds every supplied optional argument under its wire name and
\* no key for one that was not supplied.
C27_BodyMatches(args, body) ==
    \A k \in DOMAIN C27_WireName :
        IF C27_Supplied(args, k)
        THEN C27_WireName[k] \in DOMAIN body /\ body[C27_WireName[k]] = args[k]
        ELSE C27_WireName[k] \notin DOMAIN body

(* C27: for the addCase, updateCase and updateCases tools every optional    *)
(* argument supplied with a value (typeId, priorityId, estimate,            *)
(* milestoneId, refs, customPrerequisites, customSteps, customExpected)     *)
(* appears in the POST body under its wire name with the supplied value,    *)
(* and the body has no key for an argument that was not supplied.           *)
C27_SuppliedArgumentsForwarded ==
    \A c \in Slots :
        (calls[c].kind = "tool"
            /\ calls[c].name \in {"addCase", "updateCase", "updateCases"}
            /\ Len(calls[c].requests) > 0) =>
            /\ calls[c].requests[1].method = "POST"
            /\ C27_BodyMatches(calls[c].args, calls[c].requests[1].body)

-----------------------------------------------------------------------------
\* Item `out` of the getCases envelope is upstream item `up` cut down to
\* default columns.
C28_CutDown(up, out) ==
    /\ Get(out, "id") = Get(up, "id")
    /\ DOMAIN out \subseteq defaultColumns
    /\ \A k \in DOMAIN out : k \in DOMAIN up /\ out[k] = up[k]

(* C28: the cases array returned by the getCases tool has exactly one item  *)
(* per upstream item, in the upstream's order; item i has the id of         *)
(* upstream item i, its keys are a subset of the fixed default-column list  *)
(* (every other upstream key is dropped, not only the three custom text     *)
(* fields), and each kept value equals the upstream value.                  *)
C28_CasesAreUpstreamItemsCutDown ==
    \A c \in Slots :
        (ToolCall(c, "getCases") /\ Succeeded(c)) =>
            LET up == calls[c].http.data.cases
                out == calls[c].result.envelope.data.cases
            IN  /\ Len(out) = Len(up)
                /\ \A i \in 1..Len(up) : C28_CutDown(up[i], out[i])

\* A page of two cases, ids 2 then 1, the first with a key outside the
\* default columns that is not a custom text field, came back cut down.
C28_Witness ==
    \E c \in Slots :
        /\ ToolCall(c, "getCases") /\ Succeeded(c)
        /\ Len(calls[c].http.data.cases) = 2
        /\ "estimate_forecast" \in DOMAIN calls[c].http.data.cases[1]
        /\ Get(calls[c].http.data.cases[1], "id") = Num(2)
        /\ Get(calls[c].http.data.cases[2], "id") = Num(1)
        /\ Get(calls[c].result.envelope.data.cases[1], "id") = Num(2)
        /\ "estimate_forecast" \notin DOMAIN calls[c].result.envelope.data.cases[1]

-----------------------------------------------------------------------------
\* The tools that place an identifier argument in the URL path, with the
\* arguments each one places there.
C29_PathIds ==
    [addMilestone |-> {"projectId"}, updateMilestone |-> {"milestoneId"},
     addPlan |-> {"projectId"}, addPlanEntry |-> {"planId"},
     addRunToPlanEntry |-> {"planId", "entryId"},
     addResultForCase |-> {"runId", "caseId"},
     addCase |-> {"sectionId"}, updateCase |-> {"caseId"}]

C29_Identifiers ==
    {"projectId", "milestoneId", "planId", "entryId", "runId", "caseId", "sectionId"}

\* The URL of the request ends with the path identifier.
C29_InPath(call) ==
    \E id \in C29_PathIds[call.name] :
        Contains(call.requests[1].url, "/" \o JSString(call.parsed[id]))

(* C29: for every tool that places an identifier argument in the URL path   *)
(* (addMilestone, updateMilestone, addPlan, addPlanEntry, addRunToPlanEntry,*)
(* addResultForCase, addCase, updateCase), the record the handler hands to  *)
(* its client method does not hold that identifier, and the request body    *)
(* has no key projectId, milestoneId, planId, entryId, runId, caseId or     *)
(* sectionId.                                                               *)
C29_PathIdentifiersStripped ==
    \A c \in Slots :
        (calls[c].kind = "tool" /\ calls[c].name \in DOMAIN C29_PathIds
            /\ Len(calls[c].requests) > 0) =>
            /\ C29_InPath(calls[c])
            /\ C29_PathIds[calls[c].name]
                   \cap DOMAIN HandlerData(calls[c].name, calls[c].parsed) = {}
            /\ C29_Identifiers \cap DOMAIN calls[c].requests[1].body = {}

\* An addRunToPlanEntry call with every argument supplied has sent a request
\* whose body carries the forwarded fields.
C29_Witness ==
    \E c \in Slots :
        /\ ToolCall(c, "addRunToPlanEntry")
        /\ Len(calls[c].requests) > 0
        /\ calls[c].args = BaseArgs(addRunToPlanEntrySchema)
        /\ calls[c].requests[1].url = "/api/v2/add_run_to_plan_entry/2/x-entryId"
        /\ DOMAIN calls[c].requests[1].body =
               {"config_ids", "description", "assignedto_id", "include_all",
                "case_ids", "refs"}

-----------------------------------------------------------------------------
\* The numerals of a list written one after another, a comma before each
\* but the first.
C30_CommaList(q) ==
    LET piece[i \in 0..Len(q)] ==
            IF i = 0 THEN ""
            ELSE piece[i - 1] \o (IF i = 1 THEN "" ELSE ",") \o Decimal(q[i])
    IN  piece[Len(q)]

\* The arguments of getRuns other than projectId and createdBy.
C30_Filters == DOMAIN getRunsSchema \ {"projectId", "createdBy"}

(* C30: the query of a getRuns request has no key createdBy; it has a key   *)
(* created_by exactly when createdBy was supplied, holding the elements of  *)
(* the list joined by commas in the given order; every remaining filter     *)
(* argument is in the query under its own name with its own value.          *)
C30_CreatedByJoined ==
    \A c \in Slots :
        (ToolCall(c, "getRuns") /\ Len(calls[c].requests) > 0) =>
            LET args == calls[c].args
                params == calls[c].requests[1].params
            IN  /\ calls[c].requests[1].hasParams
                /\ "createdBy" \notin DOMAIN params
                /\ args.createdBy = Undefined => "created_by" \notin DOMAIN params
                /\ args.createdBy # Undefined =>
                       Get(params, "created_by") = Str(C30_CommaList(args.createdBy.a))
                /\ DOMAIN params \subseteq C30_Filters \cup {"created_by"}
                /\ \A k \in C30_Filters : Get(params, k) = args[k]

\* A getRuns call with a list of three users and filters has sent its
\* request with the list joined.
C30_Witness ==
    \E c \in Slots :
        /\ ToolCall(c, "getRuns")
        /\ Len(calls[c].requests) > 0
        /\ calls[c].args.createdBy = Arr(<<1, 2, 3>>)
        /\ calls[c].args.isCompleted = Bool(TRUE)
        /\ calls[c].requests[1].params.created_by = Str("1,2,3")
        /\ calls[c].requests[1].params.isCompleted = Bool(TRUE)

\* A getRuns call without createdBy has sent its request.
C30_WitnessOmitted ==
    \E c \in Slots :
        /\ ToolCall(c, "getRuns")
        /\ Len(calls[c].requests) > 0
        /\ calls[c].args.createdBy = Undefined

====
